---- MODULE Spec2Model ----
(***************************************************************************)
(* slurmboard: the cluster telemetry pipeline (sinfo/squeue collection,    *)
(* node/partition aggregation, utilization arithmetic, bar rendering) and  *)
(* the refresh logic of App.                                               *)
(*                                                                         *)
(* f64 quantities are held exactly, as integer multiples of 1/FRAC; the    *)
(* positions computed by to_line are held as numerators over the bar's     *)
(* capacity, so every floor/ceil/compare is the exact rational one.        *)
(***************************************************************************)
EXTENDS Integers, Sequences, FiniteSets, TLC

VARIABLES
    \* --- rendering of one partition of the node table -------------------
    nodes,            \* Partition.nodes of the partition being rendered
    def_mem_per_cpu,  \* Args.def_mem_per_cpu
    overflow_checks,  \* build profile: are integer overflow checks compiled in
    cell,             \* the table cell rendered last
    \* --- one collection cycle -------------------------------------------
    sinfo,            \* the node source: [status, lines]
    squeue,           \* the job source: [status, lines]
    collected,        \* outcome of the last Slurm::collect
    \* --- App --------------------------------------------------------------
    cluster,          \* App.cluster
    last_update,      \* App.last_update (an Instant, in clock ticks)
    running,          \* App.running
    interval,         \* Args.interval
    now,              \* the monotonic clock, in ticks
    cycle_start,      \* observer: Instant at which the last cycle started (-1: none)
    prev_start,       \* observer: Instant at which the cycle before it started
    last_call,        \* observer: what the last call of App::tick / App::update did
    flip,             \* observer: toggles at every call of App::tick / App::update
    \* --- decoding of one field of a job record, and the job table ----------
    field,            \* [name, text, done, out]: a raw field, what its decoder returned
    job_table,        \* JobTableState: [jobs, sort_order, sorted]
    \* --- the user interface ---------------------------------------------------
    ui                \* UI: [focus, node_state, node_layout, job_state, panic, terminal]

vars == <<nodes, def_mem_per_cpu, overflow_checks, cell, sinfo, squeue, collected,
          cluster, last_update, running, interval, now, cycle_start, prev_start,
          last_call, flip, field, job_table, ui>>

util_vars == <<nodes, def_mem_per_cpu, overflow_checks, cell>>
collect_vars == <<sinfo, squeue, collected>>
app_vars == <<cluster, last_update, running, interval, now, cycle_start, prev_start,
              last_call, flip>>
job_vars == <<field, job_table, ui>>

-----------------------------------------------------------------------------
(* Bounds                                                                  *)

\* denominator of the fixed-point representation of f64 values
FRAC == 2
\* width of usize in the model (wrapping subtraction is taken modulo 2^UsizeBits)
UsizeBits == 16
\* nodes per rendered partition
MaxNodes == 2

-----------------------------------------------------------------------------
(* Small helpers                                                           *)

Min(a, b) == IF a < b THEN a ELSE b
Max(a, b) == IF a > b THEN a ELSE b
Range(s) == {s[i] : i \in DOMAIN s}

\* Option<T>
None == <<>>
Some(v) == <<v>>
unwrap_or(o, d) == IF o = None THEN d ELSE o[1]

saturating_sub(a, b) == IF a > b THEN a - b ELSE 0
wrapping_sub(a, b) == (a - b) % (2 ^ UsizeBits)
\* (a as f64 / b as f64).ceil() for a >= 0, b > 0
ceil_div(a, b) == (a + b - 1) \div b

-----------------------------------------------------------------------------
(* slurm/nodes.rs                                                          *)

SlurmState == {"Allocated", "Completing", "Down", "Drained", "Draining", "Fail",
               "Failing", "Future", "Idle", "Maintenance", "Mixed", "Perfctrs",
               "PowerDown", "PowerUp", "Reserved", "Unknown"}

is_available_no_responds(state) ==
    state.state \in {"Allocated", "Completing", "Idle", "Mixed", "Reserved"}

is_available(state) ==
    /\ state.responds
    /\ state.state \in {"Allocated", "Completing", "Idle", "Mixed", "Reserved"}

Utilization(ut, al, bl, un, ca) ==
    [utilized |-> ut, allocated |-> al, blocked |-> bl, unavailable |-> un, capacity |-> ca]

\* cpu_utilization without the cap of the load at the allocated CPUs
cpu_utilization_uncapped(node, mem_per_cpu) ==
    LET allocated == node.cpu_state.allocated * FRAC
        blocked == IF mem_per_cpu > 0
                   THEN ceil_div(node.mem_alloc, mem_per_cpu) * FRAC
                   ELSE 0
    IN  Utilization(unwrap_or(node.cpu_load, 0), allocated, Max(blocked, allocated),
                    node.cpu_state.other * FRAC, node.cpu_state.total * FRAC)

cpu_utilization(node, mem_per_cpu) ==
    LET allocated == node.cpu_state.allocated * FRAC
        utilized == Min(unwrap_or(node.cpu_load, 0), allocated)
        blocked == IF mem_per_cpu > 0
                   THEN ceil_div(node.mem_alloc, mem_per_cpu) * FRAC
                   ELSE 0
    IN  Utilization(utilized, allocated, Max(blocked, allocated),
                    node.cpu_state.other * FRAC, node.cpu_state.total * FRAC)

\* mem_utilization taking a node without spare CPUs for one with spare CPUs
mem_utilization_spare_or_full(node) ==
    LET utilized == Min(saturating_sub(node.mem, unwrap_or(node.mem_free, node.mem)),
                        node.mem_alloc) * FRAC
        cs == node.cpu_state
        bu == IF cs.allocated + cs.other <= cs.total
              THEN <<node.mem_alloc * FRAC, 0>>
              ELSE IF saturating_sub(cs.total, cs.other) > 0
              THEN <<node.mem * FRAC, 0>>
              ELSE <<0, saturating_sub(node.mem, node.mem_alloc) * FRAC>>
    IN  Utilization(utilized, node.mem_alloc * FRAC, bu[1], bu[2], node.mem * FRAC)

mem_utilization(node) ==
    LET utilized == Min(saturating_sub(node.mem, unwrap_or(node.mem_free, node.mem)),
                        node.mem_alloc) * FRAC
        cs == node.cpu_state
        bu == IF cs.allocated + cs.other < cs.total
              THEN <<node.mem_alloc * FRAC, 0>>
              ELSE IF saturating_sub(cs.total, cs.other) > 0
              THEN <<node.mem * FRAC, 0>>
              ELSE <<0, saturating_sub(node.mem, node.mem_alloc) * FRAC>>
    IN  Utilization(utilized, node.mem_alloc * FRAC, bu[1], bu[2], node.mem * FRAC)

available(u) == u.capacity - (u.allocated + u.blocked + u.unavailable)

\* `self.gpus - self.gpus_used` is evaluated and underflows
gpu_sub_overflows(node, mem_per_cpu) ==
    /\ available(cpu_utilization(node, mem_per_cpu)) < 1 * FRAC
    /\ node.gpus < node.gpus_used

\* the value a build without overflow checks computes (usize subtraction wraps)
gpu_utilization(node, mem_per_cpu) ==
    LET blocked == IF available(cpu_utilization(node, mem_per_cpu)) < 1 * FRAC
                   THEN wrapping_sub(node.gpus, node.gpus_used)
                   ELSE 0
    IN  Utilization(0, node.gpus_used * FRAC, blocked * FRAC, 0, node.gpus * FRAC)

-----------------------------------------------------------------------------
(* widgets/utilization.rs                                                  *)

\* index into BARS of the full block
FULL_BLOCK == 0

\* BARS, by the filled width of each glyph in eighths of a cell (BARS[0] is
\* BARS_width[1]): full block, then 7/8 down to 1/8
BARS_width == <<8, 7, 6, 5, 4, 3, 2, 1>>

style(fg, bg) == [fg |-> fg, bg |-> bg]
\* a Span: `n` copies of the glyph BARS[glyph]
Span(glyph, n, st) == [glyph |-> glyph, n |-> n, style |-> st]

segments(u) ==
    LET avail == u.capacity - u.unavailable
    IN  << <<Min(u.utilized, avail), "Green">>,
           <<u.allocated, "Yellow">>,
           <<u.blocked, "LightMagenta">>,
           <<avail, "DarkGray">>,
           <<u.capacity, "Black">> >>

\* One iteration of the loop over the segments. Positions (last_end, end) are
\* numerators over u.capacity: position = numerator / u.capacity characters.
segment_step(acc, seg, u, length) ==
    LET end == seg[1] * length
        color == seg[2]
    IN  IF end > acc.last_end
        THEN LET remainder == acc.last_end % u.capacity
                 fraction == ((remainder * 8) \div u.capacity) - 1
                 a1 == IF fraction > 0
                       THEN [acc EXCEPT
                               !.spans = Append(@, Span(fraction, 1,
                                                        style(acc.last_color, color))),
                               !.last_end = @ + (u.capacity - remainder),
                               !.chars = @ + 1]
                       ELSE [acc EXCEPT !.last_end = @ - remainder]
             IN  IF end > a1.last_end
                 THEN LET whole == (end - a1.last_end) \div u.capacity
                      IN  [spans |-> IF whole > 0
                                     THEN Append(a1.spans,
                                                 Span(FULL_BLOCK, whole, style(color, color)))
                                     ELSE a1.spans,
                           chars |-> IF whole > 0 THEN a1.chars + whole ELSE a1.chars,
                           last_end |-> end,
                           last_color |-> color]
                 ELSE a1
        ELSE acc

RECURSIVE segment_loop(_, _, _, _, _)
segment_loop(acc, segs, i, u, length) ==
    IF i > Len(segs) THEN acc
    ELSE segment_loop(segment_step(acc, segs[i], u, length), segs, i + 1, u, length)

\* the assertion at the top of to_line
to_line_assert(u) == u.allocated + u.unavailable <= u.capacity

\* to_line drawing an empty bar of the full width when there is nothing to scale
to_line_blank_bar(u, length) ==
    IF ~to_line_assert(u) THEN [panic |-> TRUE, spans |-> <<>>]
    ELSE IF length > 0 /\ u.capacity > 0
    THEN LET acc == segment_loop([spans |-> <<>>, chars |-> 0, last_end |-> 0,
                                  last_color |-> "Green"],
                                 segments(u), 1, u, length)
             remainder == saturating_sub(length, acc.chars)
         IN  [panic |-> FALSE,
              spans |-> IF remainder > 0
                        THEN Append(acc.spans,
                                    Span(FULL_BLOCK, remainder,
                                         style(acc.last_color, acc.last_color)))
                        ELSE acc.spans]
    ELSE [panic |-> FALSE,
          spans |-> IF length > 0
                    THEN <<Span(FULL_BLOCK, length, style("Black", "Black"))>>
                    ELSE <<>>]

\* [panic, spans]: panic is the failed assertion
to_line(u, length) ==
    IF ~to_line_assert(u) THEN [panic |-> TRUE, spans |-> <<>>]
    ELSE IF length > 0 /\ u.capacity > 0
    THEN LET acc == segment_loop([spans |-> <<>>, chars |-> 0, last_end |-> 0,
                                  last_color |-> "Green"],
                                 segments(u), 1, u, length)
             remainder == saturating_sub(length, acc.chars)
         IN  [panic |-> FALSE,
              spans |-> IF remainder > 0
                        THEN Append(acc.spans,
                                    Span(FULL_BLOCK, remainder,
                                         style(acc.last_color, acc.last_color)))
                        ELSE acc.spans]
    ELSE [panic |-> FALSE, spans |-> <<>>]

RECURSIVE line_width(_)
\* number of characters of a list of spans
line_width(spans) ==
    IF spans = <<>> THEN 0 ELSE spans[1].n + line_width(Tail(spans))

RECURSIVE sum_drop_unavailable(_)
sum_drop_unavailable(us) ==
    IF us = <<>> THEN Utilization(0, 0, 0, 0, 0)
    ELSE LET it == us[Len(us)]
             result == sum_drop_unavailable(SubSeq(us, 1, Len(us) - 1))
         IN  Utilization(result.utilized + it.utilized,
                         result.allocated + it.allocated,
                         result.blocked + it.blocked,
                         result.unavailable,
                         result.capacity + it.capacity)

RECURSIVE sum(_)
\* impl Sum for Utilization
sum(us) ==
    IF us = <<>> THEN Utilization(0, 0, 0, 0, 0)
    ELSE LET it == us[Len(us)]
             result == sum(SubSeq(us, 1, Len(us) - 1))
         IN  Utilization(result.utilized + it.utilized,
                         result.allocated + it.allocated,
                         result.blocked + it.blocked,
                         result.unavailable + it.unavailable,
                         result.capacity + it.capacity)

-----------------------------------------------------------------------------
(* widgets/nodes.rs: the utilization cells of the node table               *)

\* the columns rendered through Utilization::to_line
BarColumns == {"CPUs", "Memory", "GPUs"}

gpu_column_width(gpus) == Max(16, Min(gpus, 32))
constraint_length(c) == c

RECURSIVE count_gpus(_)
\* NodeTableState.gpus as NodeTableState::update leaves it
count_gpus(ns) == IF ns = <<>> THEN 0 ELSE ns[1].gpus + count_gpus(Tail(ns))

\* the override applied to the memory and GPU figures of an unavailable node
mark_unavailable_keep_blocked(u) ==
    [u EXCEPT !.allocated = 0, !.utilized = 0, !.unavailable = u.capacity]

mark_unavailable(u) ==
    [u EXCEPT !.allocated = 0, !.utilized = 0, !.blocked = 0,
              !.unavailable = u.capacity]

\* the closure mapped over partition.nodes for `column`
partition_term(v, column, mem_per_cpu) ==
    CASE column = "CPUs" -> cpu_utilization(v, mem_per_cpu)
      [] column = "Memory" ->
            IF ~is_available(v.state) THEN mark_unavailable(mem_utilization(v))
            ELSE mem_utilization(v)
      [] column = "GPUs" ->
            IF ~is_available(v.state)
            THEN mark_unavailable(gpu_utilization(v, mem_per_cpu))
            ELSE gpu_utilization(v, mem_per_cpu)

node_term(node, column, mem_per_cpu) ==
    CASE column = "CPUs" -> cpu_utilization(node, mem_per_cpu)
      [] column = "Memory" -> mem_utilization(node)
      [] column = "GPUs" -> gpu_utilization(node, mem_per_cpu)

column_width(column, constraint) ==
    IF column = "GPUs" THEN gpu_column_width(count_gpus(nodes))
    ELSE constraint_length(constraint)

\* columns() hides the GPU column of a cluster without GPUs
column_visible(column) == column = "GPUs" => count_gpus(nodes) > 0

NoCell ==
    [kind |-> "none", row |-> 0, column |-> "CPUs", width |-> 0, panic |-> FALSE,
     util |-> Utilization(0, 0, 0, 0, 0), terms |-> <<>>, spans |-> <<>>]

PanicCell(kind, row, column, width) ==
    [kind |-> kind, row |-> row, column |-> column, width |-> width, panic |-> TRUE,
     util |-> Utilization(0, 0, 0, 0, 0), terms |-> <<>>, spans |-> <<>>]

\* NodeTableState::node_text for the node at `row` and a bar column
node_text(row, column, constraint) ==
    /\ ~cell.panic
    /\ row \in 1..Len(nodes)
    /\ column_visible(column)
    /\ LET node == nodes[row]
           width == column_width(column, constraint)
       IN  IF column = "GPUs" /\ overflow_checks /\ gpu_sub_overflows(node, def_mem_per_cpu)
           THEN cell' = PanicCell("node", row, column, width)
           ELSE LET u == node_term(node, column, def_mem_per_cpu)
                    line == to_line(u, width)
                IN  cell' = [kind |-> "node", row |-> row, column |-> column,
                             width |-> width, panic |-> line.panic, util |-> u,
                             terms |-> <<u>>, spans |-> line.spans]
    /\ UNCHANGED <<nodes, def_mem_per_cpu, overflow_checks>>
    /\ UNCHANGED <<collect_vars, app_vars, job_vars>>

\* NodeTableState::partition_text for a bar column
partition_text(column, constraint) ==
    /\ ~cell.panic
    /\ column_visible(column)
    /\ LET width == column_width(column, constraint)
       IN  IF /\ column = "GPUs" /\ overflow_checks
              /\ \E i \in 1..Len(nodes) : gpu_sub_overflows(nodes[i], def_mem_per_cpu)
           THEN cell' = PanicCell("partition", 0, column, width)
           ELSE LET terms == [i \in 1..Len(nodes) |->
                                 partition_term(nodes[i], column, def_mem_per_cpu)]
                    u == sum(terms)
                    line == to_line(u, width)
                IN  cell' = [kind |-> "partition", row |-> 0, column |-> column,
                             width |-> width, panic |-> line.panic, util |-> u,
                             terms |-> terms, spans |-> line.spans]
    /\ UNCHANGED <<nodes, def_mem_per_cpu, overflow_checks>>
    /\ UNCHANGED <<collect_vars, app_vars, job_vars>>

-----------------------------------------------------------------------------
(* Node records the parser accepts (Node::parse checks no relation between *)
(* the fields of a record)                                                 *)

\* widest column rendered through a layout constraint
MaxWidth == 8
Widths == {0, 3, MaxWidth}

NodeNames == <<"n1", "n2", "n3", "n4">>

PartitionName(label, default) == [label |-> label, default |-> default]
CPUState(a, i, o, t) == [allocated |-> a, idle |-> i, other |-> o, total |-> t]
NodeState(state, responds) == [state |-> state, responds |-> responds]

Node(name, partition, state, cpu_load, cs, m, g) ==
    [name |-> name, partition |-> partition, state |-> state,
     cpus |-> cs.total, cpu_load |-> cpu_load, cpu_state |-> cs,
     mem |-> m[1], mem_alloc |-> m[2], mem_free |-> m[3],
     gpus |-> g[1], gpus_used |-> g[2], jobs |-> <<>>]

\* CPUS(A/I/O/T): consistent tuples and tuples whose parts do not add up
CpuStates ==
    {CPUState(2, 2, 0, 4), CPUState(0, 4, 0, 4), CPUState(4, 0, 0, 4),
     CPUState(0, 0, 4, 4), CPUState(4, 4, 0, 8), CPUState(3, 0, 2, 4),
     CPUState(0, 0, 0, 0)}
\* <<MEMORY, ALLOCMEM, FREE_MEM>>
MemStates ==
    {<<16000, 4000, Some(9000)>>, <<16000, 0, None>>, <<16000, 16000, Some(100)>>,
     <<16000, 20000, Some(17000)>>, <<0, 0, None>>}
\* <<gpus of GRES, gpus of GRES_USED>>
GpuStates == {<<0, 0>>, <<2, 1>>, <<2, 2>>, <<1, 2>>}
NodeStates ==
    {NodeState("Mixed", TRUE), NodeState("Down", TRUE), NodeState("Idle", FALSE)}
\* CPU_LOAD: N/A, 1.5, 6.0
CpuLoads == {None, Some((3 * FRAC) \div 2), Some(6 * FRAC)}
MemPerCpu == {0, 2000}

NodeRecords ==
    {Node("n1", PartitionName("gpu", FALSE), st, ld, cs, m, g) :
        st \in NodeStates, ld \in CpuLoads, cs \in CpuStates, m \in MemStates,
        g \in GpuStates}

\* the narrower set of records that partitions of several nodes are built from
MemberRecords ==
    {Node("n1", PartitionName("gpu", FALSE), st, Some((3 * FRAC) \div 2), cs,
          <<16000, 4000, Some(9000)>>, <<2, 1>>) :
        st \in NodeStates,
        cs \in {CPUState(2, 2, 0, 4), CPUState(4, 4, 0, 8), CPUState(0, 0, 4, 4),
                CPUState(3, 0, 2, 4)}}

Named(ns) == [i \in DOMAIN ns |-> [ns[i] EXCEPT !.name = NodeNames[i]]]

\* kind: "none", "skipped" (Ok(false)), "updated" (Ok(true)), "failed" (Err) or
\* "panic"; nonzero: the command that ran and exited with a non-zero status in
\* that call; stored: whether the call assigned App.cluster; cycle: how the
\* last cycle ended; before: how the cycle before the last one ended
Call(kind, nonzero, stored, cycle, before) ==
    [kind |-> kind, nonzero |-> nonzero, stored |-> stored, cycle |-> cycle,
     before |-> before]
NoCall == Call("none", "none", FALSE, "none", "none")

IdleCollect ==
    /\ sinfo = [status |-> "ok", lines |-> <<>>]
    /\ squeue = [status |-> "ok", lines |-> <<>>]
    /\ collected = [kind |-> "none", cluster |-> <<>>]

IdleApp ==
    /\ cluster = <<>>
    /\ last_update = 0
    /\ running = TRUE
    /\ interval = 0
    /\ now = 0
    /\ cycle_start = -1
    /\ prev_start = -1
    /\ last_call = NoCall
    /\ flip = FALSE

\* TableState::default()
TableState_default == [selected |-> None, offset |-> 0]
\* NodeTableState::default()
NodeTableState_default ==
    [focus |-> FALSE, hide_unavailable |-> FALSE, table |-> TableState_default,
     cluster |-> <<>>, rows |-> <<>>, gpus |-> 0]
\* JobTableState::default(): sort_column 4 is Runtime, SortOrder::default() is
\* Descending
JobTableState_default ==
    [focus |-> FALSE, table |-> TableState_default, jobs |-> <<>>, sort_column |-> 4,
     sort_order |-> "Descending"]
\* Rect::default()
Rect_default == [height |-> 0]
\* UI::default(); panic: a call on the UI panicked; terminal: the height of
\* the terminal at the last UI::render (0: nothing was drawn yet)
UI_default ==
    [focus |-> "Jobs", node_state |-> NodeTableState_default,
     node_layout |-> Rect_default, job_state |-> JobTableState_default,
     panic |-> FALSE, terminal |-> 0]

\* no field decoded, an empty job table, no user interface built
IdleJobs ==
    /\ field = [name |-> "none", text |-> <<>>, done |-> FALSE, out |-> <<>>]
    /\ job_table = [jobs |-> <<>>, sort_order |-> "Ascending", sorted |-> FALSE]
    /\ ui = UI_default

\* one node, any accepted record
InitNode ==
    /\ \E n \in NodeRecords : nodes = <<n>>
    /\ def_mem_per_cpu \in MemPerCpu
    /\ overflow_checks \in BOOLEAN
    /\ cell = NoCell
    /\ IdleCollect /\ IdleApp /\ IdleJobs

\* a partition of 1..MaxNodes nodes
InitPartition ==
    /\ \E k \in 1..MaxNodes : \E ns \in [1..k -> MemberRecords] : nodes = Named(ns)
    /\ def_mem_per_cpu \in {0, 2000}
    /\ overflow_checks \in BOOLEAN
    /\ cell = NoCell
    /\ IdleCollect /\ IdleApp /\ IdleJobs

NextRender ==
    \/ \E row \in 1..MaxNodes, column \in BarColumns, w \in Widths :
          node_text(row, column, w)
    \/ \E column \in BarColumns, w \in Widths : partition_text(column, w)

SpecNode == InitNode /\ [][NextRender]_vars
SpecPartition == InitPartition /\ [][NextRender]_vars

-----------------------------------------------------------------------------
(* slurm/jobs.rs, slurm/nodes.rs, slurm/mod.rs: one collection cycle       *)

\* Result<T>: Ok(v), Err, or a panic unwinding through the caller
Ok(v) == [kind |-> "ok", value |-> v]
Err == [kind |-> "err", value |-> <<>>]
Panic == [kind |-> "panic", value |-> <<>>]

Job(id, nodelist, partition, user) ==
    [id |-> id, nodelist |-> nodelist, partition |-> partition, user |-> user]

\* a line of command output: the record it decodes to, and how its decoding
\* ends: "ok", "err" (a decoder returned Err) or "panic"
Line(record, decodes) == [record |-> record, decodes |-> decodes]
\* what a command did: status is "ok", "nonzero" (ran, exit status # 0) or
\* "nostart" (could not be started); lines is its standard output
Output(status, lines) == [status |-> status, lines |-> lines]

\* a lenient parse: records that do not decode are left out
parse_skip_failed(lines) ==
    LET decodes(line) == line.decodes = "ok"
    IN  Ok([i \in DOMAIN SelectSeq(lines, decodes) |->
              SelectSeq(lines, decodes)[i].record])

\* Job::parse / Node::parse: the records are decoded in order, and the first
\* one that does not decode ends the parse (`?` on an Err, or the panic)
parse(lines) ==
    IF \A i \in DOMAIN lines : lines[i].decodes = "ok"
    THEN Ok([i \in DOMAIN lines |-> lines[i].record])
    ELSE LET first == CHOOSE i \in DOMAIN lines :
                         /\ lines[i].decodes # "ok"
                         /\ \A j \in 1..(i - 1) : lines[j].decodes = "ok"
         IN  IF lines[first].decodes = "err" THEN Err ELSE Panic

Job_collect(out) ==
    IF out.status = "nostart" THEN Err
    ELSE IF out.status = "nonzero" THEN Panic
    ELSE parse(out.lines)

\* the exit status is not looked at
Node_collect(out) ==
    IF out.status = "nostart" THEN Err
    ELSE parse(out.lines)

\* HashMap<String, Vec<_>>: entry(key).or_default().push(v)
push_entry(map, key, v) ==
    IF key \in DOMAIN map THEN [map EXCEPT ![key] = Append(@, v)]
    ELSE map @@ (key :> <<v>>)
\* HashMap::remove(key).unwrap_or_default()
removed_or_default(map, key) == IF key \in DOMAIN map THEN map[key] ELSE <<>>
without(map, key) == [k \in DOMAIN map \ {key} |-> map[k]]
EmptyMap == <<>>

RECURSIVE push_each(_, _, _)
\* for node in &job.nodelist { allocated.entry(node).or_default().push(job) }
push_each(map, names, job) ==
    IF names = <<>> THEN map
    ELSE push_each(push_entry(map, names[1], job), Tail(names), job)

RECURSIVE collect_jobs_loop(_, _)
\* acc = <<unallocated, allocated>>
collect_jobs_loop(acc, jobs) ==
    IF jobs = <<>> THEN acc
    ELSE LET job == jobs[1]
         IN  collect_jobs_loop(
                IF job.nodelist = <<>>
                THEN <<push_entry(acc[1], job.partition.label, job), acc[2]>>
                ELSE <<acc[1], push_each(acc[2], job.nodelist, job)>>,
                Tail(jobs))

collect_jobs(out) ==
    LET jobs == Job_collect(out)
    IN  IF jobs.kind # "ok" THEN jobs
        ELSE Ok(collect_jobs_loop(<<EmptyMap, EmptyMap>>, jobs.value))

RECURSIVE group_nodes(_, _, _)
\* the loop over Node::collect()?: each node takes its job list out of
\* `allocated` and is appended to its partition's entry
group_nodes(acc, allocated, ns) ==
    IF ns = <<>> THEN acc
    ELSE LET node == [ns[1] EXCEPT !.jobs = removed_or_default(allocated, ns[1].name)]
         IN  group_nodes(push_entry(acc, node.partition.label, node),
                         without(allocated, node.name), Tail(ns))

RECURSIVE extend_from_nodes(_)
\* for node in &nodes { jobs.extend_from_slice(&node.jobs) }
extend_from_nodes(ns) ==
    IF ns = <<>> THEN <<>> ELSE ns[1].jobs \o extend_from_nodes(Tail(ns))

Partition(name, jobs, ns) == [name |-> name, jobs |-> jobs, nodes |-> ns]

\* the loop over partitions.drain() with the pending jobs that no partition
\* took handed to the partition visited first
drain_with_leftovers(partitions, unallocated, order) ==
    LET leftover(k) == k \notin DOMAIN partitions
        RECURSIVE rest(_)
        rest(keys) ==
            IF keys = {} THEN <<>>
            ELSE LET k == CHOOSE x \in keys : TRUE
                 IN  unallocated[k] \o rest(keys \ {k})
    IN  [i \in DOMAIN order |->
            LET ns == partitions[order[i]]
            IN  Partition(ns[1].partition,
                          extend_from_nodes(ns)
                            \o removed_or_default(unallocated, order[i])
                            \o (IF i = 1
                                THEN rest({k \in DOMAIN unallocated : leftover(k)})
                                ELSE <<>>),
                          ns)]

\* the loop over partitions.drain(), visiting the labels in the order `order`
drain(partitions, unallocated, order) ==
    [i \in DOMAIN order |->
        LET ns == partitions[order[i]]
        IN  Partition(ns[1].partition,
                      extend_from_nodes(ns) \o removed_or_default(unallocated, order[i]),
                      ns)]

\* the orders in which a HashMap holding the keys S may be iterated
iteration_orders(S) ==
    {f \in [1..Cardinality(S) -> S] : \A i, j \in DOMAIN f : f[i] = f[j] => i = j}

sort_key(partition) == -Len(partition.nodes)

RECURSIVE sort_by_key(_)
\* slice::sort_by_key (a stable sort) with the key -(v.nodes.len())
sort_by_key(ps) ==
    IF ps = <<>> THEN <<>>
    ELSE LET x == ps[Len(ps)]
             front == sort_by_key(SubSeq(ps, 1, Len(ps) - 1))
             keep(p) == sort_key(p) <= sort_key(x)
             after(p) == sort_key(p) > sort_key(x)
         IN  SelectSeq(front, keep) \o <<x>> \o SelectSeq(front, after)

\* Slurm::collect: the set of results it may return on these command outputs
\* (one per iteration order of the partitions map)
Slurm_collect(si, sq) ==
    LET jobs == collect_jobs(sq)
    IN  IF jobs.kind # "ok" THEN {jobs}
        ELSE LET ns == Node_collect(si)
             IN  IF ns.kind # "ok" THEN {ns}
                 ELSE LET partitions == group_nodes(EmptyMap, jobs.value[2], ns.value)
                      IN  {Ok(sort_by_key(drain(partitions, jobs.value[1], order))) :
                              order \in iteration_orders(DOMAIN partitions)}

\* one call of Slurm::collect on the current command outputs
collect ==
    /\ \E r \in Slurm_collect(sinfo, squeue) :
          collected' = [kind |-> r.kind,
                        cluster |-> IF r.kind = "ok" THEN r.value ELSE <<>>]
    /\ UNCHANGED <<sinfo, squeue>>
    /\ UNCHANGED <<util_vars, app_vars, job_vars>>

-----------------------------------------------------------------------------
(* Command outputs                                                         *)

\* lines of node-info output
MaxNodeLines == 3
\* lines of job-info output
MaxJobLines == 2

Labels == {"a", "b"}
BareNode(name, label) ==
    Node(name, PartitionName(label, FALSE), NodeState("Mixed", TRUE), None,
         CPUState(2, 2, 0, 4), <<16000, 4000, None>>, <<0, 0>>)

\* `sinfo -N` prints one line per node and partition the node belongs to
NodeLines ==
    {Line(BareNode(name, label), "ok") : name \in {"n1", "n2"}, label \in Labels}
\* node lists of running jobs (n3 is no node of the cluster) and of pending ones
NodeLists == {<<>>, <<"n1">>, <<"n1", "n2">>, <<"n3">>}
JobLabels == {"a", "c"}

SinfoOutputs ==
    {Output("ok", ls) :
        ls \in {f \in UNION {[1..k -> NodeLines] : k \in 0..MaxNodeLines} :
                   \A i, j \in DOMAIN f : f[i] = f[j] => i = j}}
SqueueOutputs ==
    {Output("ok", [i \in DOMAIN f |->
                     Line(Job(i, f[i][1], PartitionName(f[i][2], FALSE), "user"), "ok")]) :
        f \in UNION {[1..k -> NodeLists \X JobLabels] : k \in 0..MaxJobLines}}

IdleRender ==
    /\ nodes = <<>>
    /\ def_mem_per_cpu = 0
    /\ overflow_checks = FALSE
    /\ cell = NoCell

InitCollect ==
    /\ sinfo \in SinfoOutputs
    /\ squeue \in SqueueOutputs
    /\ collected = [kind |-> "none", cluster |-> <<>>]
    /\ IdleRender /\ IdleApp /\ IdleJobs

NextCollect == collect

SpecCollect == InitCollect /\ [][NextCollect]_vars

-----------------------------------------------------------------------------
(* app.rs, handler.rs: the refresh logic                                    *)

\* clock ticks per second
TicksPerSecond == 2
\* the clock stops at MaxTime ticks
MaxTime == 6
\* ticks a collection cycle may take
MaxCollectTicks == 1

\* Duration::from_secs, in ticks
from_secs(secs) == secs * TicksPerSecond
\* Instant::elapsed
elapsed(instant) == now - instant

\* the command of this cycle that was run and exited with a non-zero status
ran_nonzero ==
    IF squeue.status = "nonzero" THEN "squeue"
    ELSE IF collect_jobs(squeue).kind = "ok" /\ sinfo.status = "nonzero" THEN "sinfo"
    ELSE "none"

\* the body of App::update once the rate check has passed, with the timestamp
\* taken before the result of Slurm::collect is examined
run_cycle_stamp_first ==
    \E r \in Slurm_collect(sinfo, squeue), d \in 0..MaxCollectTicks :
        /\ now + d <= MaxTime
        /\ now' = now + d
        /\ prev_start' = cycle_start
        /\ cycle_start' = now
        /\ last_update' = now'
        /\ IF r.kind = "ok"
           THEN /\ cluster' = r.value
                /\ last_call' = Call("updated", ran_nonzero, TRUE, "updated", last_call.cycle)
           ELSE /\ cluster' = cluster
                /\ LET kind == IF r.kind = "err" THEN "failed" ELSE "panic"
                   IN  last_call' = Call(kind, ran_nonzero, FALSE, kind, last_call.cycle)

\* the body of App::update once the rate check has passed:
\*   self.cluster = Slurm::collect(&self.config)?; self.last_update = Instant::now();
run_cycle ==
    \E r \in Slurm_collect(sinfo, squeue), d \in 0..MaxCollectTicks :
        /\ now + d <= MaxTime
        /\ now' = now + d
        /\ prev_start' = cycle_start
        /\ cycle_start' = now
        /\ IF r.kind = "ok"
           THEN /\ cluster' = r.value
                /\ last_update' = now'
                /\ last_call' = Call("updated", ran_nonzero, TRUE, "updated", last_call.cycle)
           ELSE /\ UNCHANGED <<cluster, last_update>>
                /\ LET kind == IF r.kind = "err" THEN "failed" ELSE "panic"
                   IN  last_call' = Call(kind, ran_nonzero, FALSE, kind, last_call.cycle)

\* Ok(false): nothing is collected
skip_cycle ==
    /\ last_call' = Call("skipped", "none", FALSE, last_call.cycle, last_call.before)
    /\ UNCHANGED <<cluster, last_update, now, cycle_start, prev_start>>

\* the process is alive and the main loop is running
alive == running /\ last_call.kind # "panic"

\* App::update(interval): what it does to the App
App_update(iv) ==
    /\ alive
    /\ flip' = ~flip
    /\ IF elapsed(last_update) >= from_secs(Max(iv, 1)) THEN run_cycle ELSE skip_cycle
    /\ UNCHANGED <<running, interval>>

\* App::tick with the check of the interval left out
App_tick_always_updates == App_update(interval)

\* App::tick: what it does to the App
App_tick ==
    IF interval > 0 THEN App_update(interval)
    ELSE /\ alive
         /\ flip' = ~flip
         /\ skip_cycle
         /\ UNCHANGED <<running, interval>>

\* App::quit: what it does to the App
App_quit ==
    /\ alive
    /\ running' = FALSE
    /\ UNCHANGED <<cluster, last_update, interval, now, cycle_start, prev_start,
                   last_call, flip>>

\* a call of App::update(interval) by a caller that holds no UI
update(iv) == App_update(iv) /\ UNCHANGED <<util_vars, collect_vars, job_vars>>

\* a call of App::tick by a caller that holds no UI
tick == App_tick /\ UNCHANGED <<util_vars, collect_vars, job_vars>>

\* handle_key_events, the `r` key
refresh_key == update(1)

\* a call of App::quit by a caller that holds no UI
quit == App_quit /\ UNCHANGED <<util_vars, collect_vars, job_vars>>

\* time passes
elapse ==
    /\ now < MaxTime
    /\ now' = now + 1
    /\ UNCHANGED <<cluster, last_update, running, interval, cycle_start, prev_start,
                   last_call, flip>>
    /\ UNCHANGED <<util_vars, collect_vars, job_vars>>

AppSinfo ==
    {Output("ok", <<Line(BareNode("n1", "a"), "ok")>>),
     Output("ok", <<Line(BareNode("n1", "a"), "err")>>),
     Output("nonzero", <<>>),
     Output("nostart", <<>>)}
AppSqueue ==
    {Output("ok", <<Line(Job(1, <<"n1">>, PartitionName("a", FALSE), "user"), "ok")>>),
     Output("nonzero", <<>>),
     Output("nostart", <<>>)}

\* the scheduler commands start behaving differently
scheduler_changes ==
    /\ alive
    /\ sinfo' \in AppSinfo
    /\ squeue' \in AppSqueue
    /\ UNCHANGED collected
    /\ UNCHANGED <<util_vars, app_vars, job_vars>>

\* the intervals update is called with, Args.interval among them
Intervals == {0, 2}

\* App::new: the first collection succeeded
InitApp ==
    /\ sinfo \in AppSinfo
    /\ squeue \in AppSqueue
    /\ collected = [kind |-> "none", cluster |-> <<>>]
    /\ \E r \in Slurm_collect(sinfo, squeue) : r.kind = "ok" /\ cluster = r.value
    /\ running = TRUE
    /\ interval \in Intervals
    /\ now = 0
    /\ last_update = 0
    /\ cycle_start = -1
    /\ prev_start = -1
    /\ last_call = NoCall
    /\ flip = FALSE
    /\ IdleRender /\ IdleJobs

NextApp ==
    \/ tick
    \/ refresh_key
    \/ \E iv \in Intervals : update(iv)
    \/ quit
    \/ elapse
    \/ scheduler_changes

SpecApp == InitApp /\ [][NextApp]_vars

-----------------------------------------------------------------------------
(* &str as the sequence of its bytes, and the std functions used on it     *)

\* the UTF-8 continuation bytes that occur in the texts of the model
ContinuationBytes == {"0xB5"}
\* str::is_char_boundary for the byte offset i
is_char_boundary(s, i) ==
    i = 0 \/ i = Len(s) \/ (i > 0 /\ i < Len(s) /\ s[i + 1] \notin ContinuationBytes)

RECURSIVE find(_, _, _)
\* index of the first byte c of s at or after index i, 0 if there is none
find(s, c, i) ==
    IF i > Len(s) THEN 0 ELSE IF s[i] = c THEN i ELSE find(s, c, i + 1)

contains(s, c) == find(s, c, 1) # 0

RECURSIVE splitn(_, _, _)
\* str::splitn(n, c) for n >= 1, collected
splitn(s, n, c) ==
    LET k == find(s, c, 1)
    IN  IF n = 1 \/ k = 0 THEN <<s>>
        ELSE <<SubSeq(s, 1, k - 1)>> \o splitn(SubSeq(s, k + 1, Len(s)), n - 1, c)

\* str::split(c), collected
split(s, c) == splitn(s, Len(s) + 1, c)
\* str::rsplit(c), collected
rsplit(s, c) == [i \in 1..Len(split(s, c)) |-> split(s, c)[Len(split(s, c)) + 1 - i]]
\* str::split_once(c)
split_once(s, c) ==
    LET k == find(s, c, 1)
    IN  IF k = 0 THEN None ELSE Some(<<SubSeq(s, 1, k - 1), SubSeq(s, k + 1, Len(s))>>)
\* Iterator::next for the i-th call on a collected iterator
next(values, i) == IF i <= Len(values) THEN Some(values[i]) ELSE None

Digits == <<"0", "1", "2", "3", "4", "5", "6", "7", "8", "9">>
is_digit(c) == \E d \in DOMAIN Digits : Digits[d] = c
digit_value(c) == (CHOOSE d \in DOMAIN Digits : Digits[d] = c) - 1

RECURSIVE digits_value(_)
digits_value(s) ==
    IF s = <<>> THEN 0
    ELSE digits_value(SubSeq(s, 1, Len(s) - 1)) * 10 + digit_value(s[Len(s)])

\* str::parse::<usize>: an optional `+` and at least one decimal digit (the
\* texts of the model are too short to exceed usize::MAX)
parse_usize(s) ==
    LET body == IF s # <<>> /\ s[1] = "+" THEN Tail(s) ELSE s
    IN  IF body = <<>> \/ \E i \in DOMAIN body : ~is_digit(body[i]) THEN None
        ELSE Some(digits_value(body))

\* str::parse::<f64> on texts without exponent, inf or nan: an optional sign,
\* digits with at most one `.`, at least one digit. The value is held exactly,
\* as <<numerator, denominator>>.
parse_f64(s) ==
    LET neg == s # <<>> /\ s[1] = "-"
        body == IF s # <<>> /\ s[1] \in {"+", "-"} THEN Tail(s) ELSE s
        dot == find(body, ".", 1)
        int == IF dot = 0 THEN body ELSE SubSeq(body, 1, dot - 1)
        frac == IF dot = 0 THEN <<>> ELSE SubSeq(body, dot + 1, Len(body))
    IN  IF int \o frac = <<>> \/ \E i \in DOMAIN (int \o frac) : ~is_digit((int \o frac)[i])
        THEN None
        ELSE Some(<<(IF neg THEN -1 ELSE 1) * digits_value(int \o frac), 10 ^ Len(frac)>>)

\* `f as usize` for the f64 num/den: truncation, negative values give 0
as_usize(num, den) == IF num <= 0 THEN 0 ELSE num \div den

RECURSIVE to_string(_)
\* usize::to_string
to_string(n) ==
    IF n < 10 THEN <<Digits[n + 1]>> ELSE to_string(n \div 10) \o <<Digits[(n % 10) + 1]>>
\* the format {:02}
pad2(n) == IF n < 10 THEN <<"0">> \o to_string(n) ELSE to_string(n)

-----------------------------------------------------------------------------
(* slurm/jobs.rs: Time, and the resource fields of a job record            *)

INVALID == <<"I", "N", "V", "A", "L", "I", "D">>

\* enum Time { Invalid, Duration(JobDuration) }
Invalid == [kind |-> "Invalid"]
Duration(days, hours, minutes, seconds) ==
    [kind |-> "Duration", days |-> days, hours |-> hours, minutes |-> minutes,
     seconds |-> seconds]

\* Time::parse
Time_parse(value) ==
    IF value = None THEN Err
    ELSE IF parse_usize(value[1]) = None THEN Err
    ELSE Ok(parse_usize(value[1])[1])

\* Time::from_str
Time_from_str(value) ==
    IF value = INVALID THEN Ok(Invalid)
    ELSE LET dashed == contains(value, "-")
             values == splitn(value, 2, "-")
             days == IF dashed THEN Time_parse(next(values, 1)) ELSE Ok(0)
             rest == IF dashed THEN next(values, 2) ELSE Some(value)
         IN  IF days.kind # "ok" \/ rest = None THEN Err
             ELSE LET parts == rsplit(rest[1], ":")
                      seconds == Time_parse(next(parts, 1))
                      minutes == Time_parse(next(parts, 2))
                      hours == Time_parse(IF next(parts, 3) = None THEN Some(<<"0">>)
                                          ELSE next(parts, 3))
                  IN  IF seconds.kind # "ok" \/ minutes.kind # "ok" \/ hours.kind # "ok"
                      THEN Err
                      ELSE Ok(Duration(days.value, hours.value, minutes.value,
                                       seconds.value))

\* Display for JobDuration
JobDuration_fmt(d) ==
    (IF d.days > 0 THEN to_string(d.days) \o <<"-">> ELSE <<>>)
    \o (IF d.days > 0 \/ d.hours > 0 THEN pad2(d.hours) \o <<":">> ELSE <<>>)
    \o pad2(d.minutes) \o <<":">> \o pad2(d.seconds)

\* Display for Time
Time_fmt(t) == IF t.kind = "Invalid" THEN INVALID ELSE JobDuration_fmt(t)

\* the derived Ord of Time: the variants in declaration order, the fields of
\* JobDuration lexicographically
Time_cmp(a, b) ==
    IF a.kind = "Invalid" \/ b.kind = "Invalid"
    THEN IF a.kind = b.kind THEN "Equal"
         ELSE IF a.kind = "Invalid" THEN "Less" ELSE "Greater"
    ELSE LET x == <<a.days, a.hours, a.minutes, a.seconds>>
             y == <<b.days, b.hours, b.minutes, b.seconds>>
         IN  IF x = y THEN "Equal"
             ELSE LET i == CHOOSE k \in 1..4 : x[k] # y[k] /\ \A j \in 1..(k - 1) : x[j] = y[j]
                  IN  IF x[i] < y[i] THEN "Less" ELSE "Greater"

\* parse_memory
parse_memory(value) ==
    IF value = <<>> THEN Err
    ELSE IF ~is_char_boundary(value, Len(value) - 1) THEN Panic
    ELSE LET mem == parse_f64(SubSeq(value, 1, Len(value) - 1))
             unit == value[Len(value)]
         IN  IF mem = None THEN Err
             ELSE IF unit = "K" THEN Ok(as_usize(mem[1][1], mem[1][2] * 1024))
             ELSE IF unit = "M" THEN Ok(as_usize(mem[1][1], mem[1][2]))
             ELSE IF unit = "G" THEN Ok(as_usize(mem[1][1] * 1024, mem[1][2]))
             ELSE IF unit = "T" THEN Ok(as_usize(mem[1][1] * 1048576, mem[1][2]))
             ELSE Err

\* what a decoder of a resource field leaves: how it ended and the counts
Counts(kind, cpus, mem, gpus) == [kind |-> kind, cpus |-> cpus, mem |-> mem, gpus |-> gpus]

RECURSIVE gres_loop(_, _)
\* the loop of update_from_gres over self.gres.split(',')
gres_loop(acc, resources) ==
    IF resources = <<>> THEN acc
    ELSE LET kv == split_once(resources[1], "=")
         IN  IF kv = None THEN gres_loop(acc, Tail(resources))
             ELSE IF kv[1][1] = <<"c", "p", "u">>
             THEN IF parse_usize(kv[1][2]) = None THEN [acc EXCEPT !.kind = "err"]
                  ELSE gres_loop([acc EXCEPT !.cpus = parse_usize(kv[1][2])[1]],
                                 Tail(resources))
             ELSE IF kv[1][1] = <<"m", "e", "m">>
             THEN IF parse_memory(kv[1][2]).kind # "ok"
                  THEN [acc EXCEPT !.kind = parse_memory(kv[1][2]).kind]
                  ELSE gres_loop([acc EXCEPT !.mem = parse_memory(kv[1][2]).value],
                                 Tail(resources))
             ELSE gres_loop(acc, Tail(resources))

\* Job::update_from_gres on a job whose counts are `acc`
update_from_gres(acc, gres) ==
    IF gres # <<>> THEN gres_loop(acc, split(gres, ",")) ELSE acc

RECURSIVE tres_loop(_, _)
\* the loop of update_from_tres over self.tres.split(',')
tres_loop(acc, resources) ==
    IF resources = <<>> THEN acc
    ELSE LET fields == splitn(resources[1], 3, ":")
         IN  IF fields[1] = <<"g", "p", "u">>
             THEN IF parse_usize(fields[Len(fields)]) = None
                  THEN [acc EXCEPT !.kind = "err"]
                  ELSE tres_loop([acc EXCEPT !.gpus = parse_usize(fields[Len(fields)])[1]],
                                 Tail(resources))
             ELSE tres_loop(acc, Tail(resources))

\* Job::update_from_tres on a job whose counts are `acc`
update_from_tres(acc, tres) == tres_loop(acc, split(tres, ","))

\* the counts of a job as serde leaves them (#[serde(skip_deserializing)])
NoCounts == Counts("ok", 0, 0, 0)

\* the body of the loop of Job::parse for a record with these TIME, TRES_ALLOC
\* and TRES_PER_NODE texts: how the decoding of the record ends
Job_decode(time, gres, tres) ==
    IF Time_from_str(time).kind # "ok" THEN "err"
    ELSE IF update_from_gres(NoCounts, gres).kind # "ok"
    THEN update_from_gres(NoCounts, gres).kind
    ELSE update_from_tres(update_from_gres(NoCounts, gres), tres).kind

-----------------------------------------------------------------------------
(* slurm/nodes.rs: the GPU count of a GRES text                            *)

starts_with(s, prefix) ==
    Len(s) >= Len(prefix) /\ SubSeq(s, 1, Len(prefix)) = prefix

RECURSIVE parse_gpus_loop(_)
parse_gpus_loop(values) ==
    IF values = <<>> THEN Ok(0)
    ELSE IF starts_with(values[1], <<"g", "p", "u", ":">>)
    THEN LET last == splitn(values[1], 3, ":")[Len(splitn(values[1], 3, ":"))]
             value == IF split_once(last, "(") = None THEN last
                      ELSE split_once(last, "(")[1][1]
         IN  IF parse_usize(value) = None THEN Err ELSE Ok(parse_usize(value)[1])
    ELSE parse_gpus_loop(Tail(values))

\* parse_gpus
parse_gpus(tres) == parse_gpus_loop(split(tres, ","))

\* the body of the loop of Node::parse for a record whose serde fields decode
\* (fields) and whose GRES and GRES_USED texts are these
Node_decode(fields, gres, gres_used) ==
    IF ~fields THEN "err"
    ELSE IF parse_gpus(gres).kind # "ok" THEN "err"
    ELSE IF parse_gpus(gres_used).kind # "ok" THEN "err"
    ELSE "ok"

-----------------------------------------------------------------------------
(* Field texts, and the decoding of one field                              *)

RECURSIVE concat(_)
\* the text made of these pieces
concat(pieces) == IF pieces = <<>> THEN <<>> ELSE pieces[1] \o concat(Tail(pieces))

RECURSIVE join(_, _)
\* the pieces with sep between them
join(pieces, sep) ==
    IF pieces = <<>> THEN <<>>
    ELSE IF Len(pieces) = 1 THEN pieces[1]
    ELSE pieces[1] \o sep \o join(Tail(pieces), sep)

\* characters of a memory value
MaxMemChars == 3
\* entries of a TRES_PER_NODE text
MaxTresEntries == 2
\* colon-separated parts of a TIME text
MaxTimeParts == 4
\* jobs in the job table
MaxRows == 2

\* the characters memory values are made of, each as its UTF-8 bytes (the
\* last one is the two-byte character U+00B5)
MemChars ==
    {<<"0">>, <<"1">>, <<"2">>, <<".">>, <<"K">>, <<"M">>, <<"G">>, <<"T">>, <<"X">>,
     <<"0xC2", "0xB5">>}
MemValues ==
    {concat(cs) : cs \in UNION {[1..k -> MemChars] : k \in 0..MaxMemChars}}
    \cup {<<"5", "1", "2", "M">>, <<"1", "0", "2", "4", "K">>}

mem_eq == <<"m", "e", "m", "=">>
cpu_eq_4 == <<"c", "p", "u", "=", "4">>
\* TRES_ALLOC texts
GresTexts ==
    {<<>>, cpu_eq_4, <<"c", "p", "u", "=", "x">>, <<"n", "o", "d", "e", "=", "1">>,
     cpu_eq_4 \o <<",", "n", "o", "d", "e", "=", "1">>}
    \cup {mem_eq \o v : v \in MemValues}
    \cup {cpu_eq_4 \o <<",">> \o mem_eq \o v : v \in MemValues}

gres_gpu == <<"g", "r", "e", "s", "/", "g", "p", "u">>
TresEntries ==
    {<<>>, <<"g", "p", "u">>, <<"g", "p", "u", ":", "2">>, <<"g", "p", "u", ":", "x">>,
     <<"g", "p", "u", ":", "a", "1", "0", "0", ":", "2">>,
     gres_gpu \o <<":", "a", "1", "0", "0", ":", "2">>, gres_gpu \o <<":", "4">>,
     <<"l", "i", "c", ":", "1">>}
\* TRES_PER_NODE texts
TresTexts ==
    {join(es, <<",">>) : es \in UNION {[1..k -> TresEntries] : k \in 0..MaxTresEntries}}

TimeParts == {<<>>, <<"1">>, <<"0", "2">>, <<"0", "3">>, <<"0", "4">>, <<"x">>}
\* TIME texts: [days-]part[:part]...
TimeTexts ==
    {INVALID, <<"1", "-", "2", "-", "0", "3", ":", "0", "4">>}
    \cup {join(ps, <<":">>) : ps \in UNION {[1..k -> TimeParts] : k \in 1..MaxTimeParts}}
    \cup {d \o <<"-">> \o join(ps, <<":">>) :
             d \in TimeParts, ps \in UNION {[1..k -> TimeParts] : k \in 1..MaxTimeParts}}

Field(name, text) == [name |-> name, text |-> text, done |-> FALSE, out |-> <<>>]

InitField ==
    /\ field \in {Field("TRES_ALLOC", t) : t \in GresTexts}
               \cup {Field("TRES_PER_NODE", t) : t \in TresTexts}
               \cup {Field("TIME", t) : t \in TimeTexts}
    /\ job_table = [jobs |-> <<>>, sort_order |-> "Ascending", sorted |-> FALSE]
    /\ ui = UI_default
    /\ IdleRender /\ IdleCollect /\ IdleApp

\* Job::update_from_gres on a freshly deserialized job
decode_TRES_ALLOC ==
    /\ field.name = "TRES_ALLOC" /\ ~field.done
    /\ field' = [field EXCEPT !.done = TRUE, !.out = update_from_gres(NoCounts, field.text)]
    /\ UNCHANGED <<job_table, ui, util_vars, collect_vars, app_vars>>

\* Job::update_from_tres on a freshly deserialized job
decode_TRES_PER_NODE ==
    /\ field.name = "TRES_PER_NODE" /\ ~field.done
    /\ field' = [field EXCEPT !.done = TRUE, !.out = update_from_tres(NoCounts, field.text)]
    /\ UNCHANGED <<job_table, ui, util_vars, collect_vars, app_vars>>

\* Time::from_str on the TIME field
decode_TIME ==
    /\ field.name = "TIME" /\ ~field.done
    /\ field' = [field EXCEPT !.done = TRUE, !.out = Time_from_str(field.text)]
    /\ UNCHANGED <<job_table, ui, util_vars, collect_vars, app_vars>>

NextField == decode_TRES_ALLOC \/ decode_TRES_PER_NODE \/ decode_TIME

SpecField == InitField /\ [][NextField]_vars

-----------------------------------------------------------------------------
(* Command outputs whose records may not decode                            *)

\* <<TIME, TRES_ALLOC, TRES_PER_NODE>> of a job record: one that decodes, one
\* per decoder that returns Err, and one on which parse_memory panics
RawJobs ==
    LET time == <<"0", "3", ":", "0", "4">>
        gres == cpu_eq_4 \o <<",">> \o mem_eq \o <<"2", "G">>
        tres == <<"g", "p", "u", ":", "2">>
    IN  {<<time, gres, tres>>,
         <<<<"x">>, gres, tres>>,
         <<time, mem_eq \o <<"2", "X">>, tres>>,
         <<time, gres, <<"g", "p", "u", ":", "x">>>>,
         <<time, mem_eq \o <<"0xC2", "0xB5">>, tres>>}

\* <<do the serde fields decode, GRES, GRES_USED>> of a node record
RawNodes ==
    LET gres == <<"g", "p", "u", ":", "a", "1", "0", "0", ":", "2", "(", "S", ":", "0", ")">>
        used == <<"g", "p", "u", ":", "a", "1", "0", "0", ":", "1", "(", "I", "D", "X", ")">>
    IN  {<<TRUE, gres, used>>,
         <<FALSE, gres, used>>,
         <<TRUE, gres, <<"g", "p", "u", ":", "a", "1", "0", "0", ":", "x">>>>}

InitDecode ==
    /\ \E k \in 0..MaxNodeLines : \E raw \in [1..k -> RawNodes] :
          sinfo = Output("ok",
                         [i \in 1..k |->
                            Line(BareNode(NodeNames[i], "a"),
                                 Node_decode(raw[i][1], raw[i][2], raw[i][3]))])
    /\ \E k \in 0..MaxJobLines : \E raw \in [1..k -> RawJobs] :
          squeue = Output("ok",
                          [i \in 1..k |->
                             Line(Job(i, <<"n1">>, PartitionName("a", FALSE), "user"),
                                  Job_decode(raw[i][1], raw[i][2], raw[i][3]))])
    /\ collected = [kind |-> "none", cluster |-> <<>>]
    /\ IdleRender /\ IdleApp /\ IdleJobs

SpecDecode == InitDecode /\ [][NextCollect]_vars

-----------------------------------------------------------------------------
(* widgets/jobs.rs: the job table sorted by runtime                         *)

\* the comparator of JobTableState::sort for the Runtime column and `order`
runtime_cmp(order, a, b) ==
    IF order = "Ascending" THEN Time_cmp(a, b) ELSE Time_cmp(b, a)

RECURSIVE sort_by(_, _)
\* slice::sort_by (a stable sort) with runtime_cmp
sort_by(jobs, order) ==
    IF jobs = <<>> THEN <<>>
    ELSE LET x == jobs[Len(jobs)]
             front == sort_by(SubSeq(jobs, 1, Len(jobs) - 1), order)
             keep(p) == runtime_cmp(order, p, x) # "Greater"
             after(p) == runtime_cmp(order, p, x) = "Greater"
         IN  SelectSeq(front, keep) \o <<x>> \o SelectSeq(front, after)

\* JobTableState::sort
sort ==
    /\ job_table' = [job_table EXCEPT !.jobs = sort_by(@, job_table.sort_order),
                                      !.sorted = TRUE]
    /\ UNCHANGED <<field, ui, util_vars, collect_vars, app_vars>>

\* JobTableState::toggle_sort_order
toggle_sort_order ==
    LET order == IF job_table.sort_order = "Ascending" THEN "Descending" ELSE "Ascending"
    IN  /\ job_table' = [jobs |-> sort_by(job_table.jobs, order), sort_order |-> order,
                         sorted |-> TRUE]
        /\ UNCHANGED <<field, ui, util_vars, collect_vars, app_vars>>

\* TIME texts of the jobs in the table; squeue prints fields in range, the
\* parser also accepts texts whose fields are not
SampleTexts ==
    {INVALID} \cup {JobDuration_fmt(Duration(d, h, m, sec)) :
                       d \in {0, 1}, h \in {0, 1, 25}, m \in {0, 90}, sec \in {0, 30}}
SampleTimes == {Time_from_str(t).value : t \in SampleTexts}

InitJobTable ==
    /\ \E k \in 1..MaxRows : \E ts \in [1..k -> SampleTimes] :
          job_table = [jobs |-> ts, sort_order |-> "Ascending", sorted |-> FALSE]
    /\ field = Field("none", <<>>)
    /\ ui = UI_default
    /\ IdleRender /\ IdleCollect /\ IdleApp

NextJobTable == sort \/ toggle_sort_order

SpecJobTable == InitJobTable /\ [][NextJobTable]_vars

-----------------------------------------------------------------------------
(* Claims about the utilization figures and their bars                     *)

Fields == {"utilized", "allocated", "blocked", "unavailable", "capacity"}

RECURSIVE FieldTotal(_, _, _)
\* us[1][f] + ... + us[n][f]
FieldTotal(us, f, n) == IF n = 0 THEN 0 ELSE us[n][f] + FieldTotal(us, f, n - 1)

\* C1: whatever node record the parser accepted and whatever memory-per-CPU is
\* configured, the CPU, memory and GPU figures of a rendered node row satisfy
\* allocated + unavailable <= capacity, so rendering the row never panics.
C1_NodeRowNeverPanics ==
    cell.kind = "node" =>
        /\ ~cell.panic
        /\ cell.util.allocated + cell.util.unavailable <= cell.util.capacity

\* C2: a bar rendered for a Utilization with allocated + unavailable <= capacity
\* and capacity > 0 at a width W > 0 is exactly W characters long.
C2_BarIsExactlyWide ==
    (/\ cell.kind # "none"
     /\ ~cell.panic
     /\ cell.util.allocated + cell.util.unavailable <= cell.util.capacity
     /\ cell.util.capacity > 0
     /\ cell.width > 0)
    => line_width(cell.spans) = cell.width

\* the overflow-checked GPU subtraction aborted the rendering before any sum
SumAborted == cell.panic /\ cell.terms = <<>>

\* C3: the partition-level figure is the component-wise sum of its member
\* nodes' figures (for the CPU column: of cpu_utilization of each node), and
\* if every summed figure satisfies allocated + unavailable <= capacity the
\* sum satisfies it too.
C3_PartitionIsSumOfNodes ==
    (cell.kind = "partition" /\ ~SumAborted) =>
        /\ Len(cell.terms) = Len(nodes)
        /\ \A f \in Fields : cell.util[f] = FieldTotal(cell.terms, f, Len(nodes))
        /\ cell.column = "CPUs" =>
              /\ cell.util.capacity =
                    FieldTotal([i \in 1..Len(nodes) |->
                                   [capacity |-> nodes[i].cpu_state.total * FRAC]],
                               "capacity", Len(nodes))
              /\ cell.util.allocated =
                    FieldTotal([i \in 1..Len(nodes) |->
                                   [allocated |-> nodes[i].cpu_state.allocated * FRAC]],
                               "allocated", Len(nodes))
        /\ (\A i \in 1..Len(nodes) :
               cell.terms[i].allocated + cell.terms[i].unavailable
                  <= cell.terms[i].capacity)
           => cell.util.allocated + cell.util.unavailable <= cell.util.capacity

\* C3's case: nodes with 4 and 8 CPUs, 2 and 4 of them allocated, sum to
\* capacity 12 and allocated 6.
C3_Witness ==
    /\ cell.kind = "partition" /\ cell.column = "CPUs"
    /\ Len(nodes) = 2
    /\ nodes[1].cpu_state = CPUState(2, 2, 0, 4)
    /\ nodes[2].cpu_state = CPUState(4, 4, 0, 8)
    /\ cell.util.capacity = 12 * FRAC
    /\ cell.util.allocated = 6 * FRAC

\* a node outside {allocated, completing, idle, mixed, reserved} or not responding
Unavailable(node) ==
    \/ node.state.state \notin {"Allocated", "Completing", "Idle", "Mixed", "Reserved"}
    \/ ~node.state.responds

\* what C4 says node i contributes to the sum of `column`
C4_Contribution(i, column) ==
    LET node == nodes[i]
        cap == IF column = "Memory" THEN node.mem * FRAC ELSE node.gpus * FRAC
    IN  IF column = "CPUs" THEN cpu_utilization(node, def_mem_per_cpu)
        ELSE IF Unavailable(node) THEN Utilization(0, 0, 0, cap, cap)
        ELSE IF column = "Memory" THEN mem_utilization(node)
        ELSE gpu_utilization(node, def_mem_per_cpu)

\* C4: in the memory and GPU sums of a partition an unavailable node counts as
\* allocated = utilized = blocked = 0, unavailable = capacity whatever its raw
\* allocation fields are; in the CPU sum it counts as cpu_utilization computed it.
C4_UnavailableNodesInSums ==
    (cell.kind = "partition" /\ ~SumAborted) =>
        /\ \A i \in 1..Len(nodes) : cell.terms[i] = C4_Contribution(i, cell.column)
        /\ \A f \in Fields :
              cell.util[f] =
                 FieldTotal([i \in 1..Len(nodes) |-> C4_Contribution(i, cell.column)],
                            f, Len(nodes))

\* C4's case: a memory or GPU sum over a partition holding an unavailable node
\* with memory and GPUs allocated.
C4_Witness ==
    /\ cell.kind = "partition" /\ cell.column \in {"Memory", "GPUs"}
    /\ \E i \in 1..Len(nodes) :
          /\ Unavailable(nodes[i])
          /\ nodes[i].mem_alloc > 0 /\ nodes[i].gpus_used > 0
          /\ cell.terms[i].allocated = 0 /\ cell.terms[i].blocked = 0
          /\ cell.terms[i].unavailable = cell.terms[i].capacity
          /\ cell.terms[i].capacity > 0
    /\ cell.util.unavailable > 0

-----------------------------------------------------------------------------
(* Claims about the aggregation                                             *)

Contains(seq, x) == \E i \in DOMAIN seq : seq[i] = x
Occurrences(seq, x) == Cardinality({i \in DOMAIN seq : seq[i] = x})
\* the job records of the job source
JobRecords == {squeue.lines[i].record : i \in DOMAIN squeue.lines}
\* index of the first line of the node source naming partition `label`
FirstLine(label) ==
    CHOOSE i \in DOMAIN sinfo.lines :
        /\ sinfo.lines[i].record.partition.label = label
        /\ \A j \in 1..(i - 1) : sinfo.lines[j].record.partition.label # label

\* C5: after a collection every job with a node list is in the job list of
\* every node record named in that list, and in the job list of that record's
\* partition.
C5_JobsAttachedToEveryNamedNode ==
    collected.kind = "ok" =>
        \A job \in JobRecords :
            \A p \in DOMAIN collected.cluster :
                \A n \in DOMAIN collected.cluster[p].nodes :
                    LET part == collected.cluster[p]
                        node == part.nodes[n]
                    IN  Contains(job.nodelist, node.name) =>
                            /\ Contains(node.jobs, job)
                            /\ Contains(part.jobs, job)

\* C6: a partition's job list holds the jobs attached to its member nodes and
\* the jobs without nodes labelled with the partition, nothing else, and each
\* job once.
C6_PartitionJobsAreAUnion ==
    collected.kind = "ok" =>
        \A p \in DOMAIN collected.cluster :
            LET part == collected.cluster[p]
                members == {job \in JobRecords :
                               \/ \E n \in DOMAIN part.nodes :
                                     Contains(part.nodes[n].jobs, job)
                               \/ /\ job.nodelist = <<>>
                                  /\ job.partition.label = part.name.label}
            IN  /\ Range(part.jobs) = members
                /\ \A job \in members : Occurrences(part.jobs, job) = 1

\* C7: the partitions come in descending order of node count, and partitions
\* with the same node count in the order of their first line in the node source.
C7_PartitionOrderIsDetermined ==
    collected.kind = "ok" =>
        \A i, j \in DOMAIN collected.cluster :
            i < j =>
                LET a == collected.cluster[i]
                    b == collected.cluster[j]
                IN  /\ Len(a.nodes) >= Len(b.nodes)
                    /\ Len(a.nodes) = Len(b.nodes) =>
                          FirstLine(a.name.label) < FirstLine(b.name.label)

-----------------------------------------------------------------------------
(* Claims about the refresh logic                                           *)

\* C8: a call of App::update in which Slurm::collect fails leaves App.cluster
\* and App.last_update as they were.
C8_FailedCycleChangesNothing ==
    [][(flip' # flip /\ last_call'.kind \in {"failed", "panic"})
          => (cluster' = cluster /\ last_update' = last_update)]_vars

\* C8's case: a cycle failed some time after the snapshot held was collected.
C8_Witness ==
    /\ last_call.kind = "failed"
    /\ cluster # <<>>
    /\ cycle_start > last_update

\* C9: a cycle in which a scheduler command ran and exited with a non-zero
\* status ends with an error returned: no panic, and App.cluster not replaced.
C9_NonZeroExitIsAnError ==
    last_call.nonzero # "none" => (last_call.kind = "failed" /\ ~last_call.stored)

\* C10: two successive collection cycles started through App::update or
\* App::tick start at least one second apart, whether the earlier one
\* succeeded or failed.
C10_CyclesOneSecondApart ==
    prev_start # -1 => cycle_start - prev_start >= TicksPerSecond

-----------------------------------------------------------------------------
(* Claims about the per-node figures                                        *)

\* the node of the row rendered last
RowNode == nodes[cell.row]
\* the least whole number k with k * b >= a, for a >= 0 and b > 0
Ceiling(a, b) == CHOOSE k \in 0..(a \div b + 1) : k * b >= a /\ (k - 1) * b < a

\* C11: with memory-per-CPU M > 0 the CPU figure of a node is utilized =
\* min(load or 0, allocated CPUs), allocated = allocated CPUs, blocked =
\* max(allocated CPUs, ceil(allocated memory / M)), unavailable = other CPUs,
\* capacity = total CPUs; CPUS 2/2/0/4, load 1.5, allocated memory 4000 and
\* M = 2000 give {1.5, 2, 2, 0, 4}.
C11_CpuFigure ==
    (cell.kind = "node" /\ cell.column = "CPUs" /\ def_mem_per_cpu > 0) =>
        LET cs == RowNode.cpu_state
            load == IF RowNode.cpu_load = None THEN 0 ELSE RowNode.cpu_load[1]
            by_memory == Ceiling(RowNode.mem_alloc, def_mem_per_cpu)
        IN  /\ cell.util.utilized =
                  (IF load <= cs.allocated * FRAC THEN load ELSE cs.allocated * FRAC)
            /\ cell.util.allocated = cs.allocated * FRAC
            /\ cell.util.blocked =
                  (IF by_memory >= cs.allocated THEN by_memory ELSE cs.allocated) * FRAC
            /\ cell.util.unavailable = cs.other * FRAC
            /\ cell.util.capacity = cs.total * FRAC
            /\ (/\ cs = CPUState(2, 2, 0, 4) /\ RowNode.mem_alloc = 4000
                /\ def_mem_per_cpu = 2000 /\ 2 * load = 3 * FRAC)
               => /\ 2 * cell.util.utilized = 3 * FRAC
                  /\ cell.util = [cell.util EXCEPT !.allocated = 2 * FRAC,
                                     !.blocked = 2 * FRAC, !.unavailable = 0,
                                     !.capacity = 4 * FRAC]

\* C11's case: the CPU cell of the scenario's node has been rendered.
C11_Witness ==
    /\ cell.kind = "node" /\ cell.column = "CPUs" /\ def_mem_per_cpu = 2000
    /\ RowNode.cpu_state = CPUState(2, 2, 0, 4) /\ RowNode.mem_alloc = 4000
    /\ RowNode.cpu_load # None
    /\ 2 * RowNode.cpu_load[1] = 3 * FRAC
    /\ 2 * cell.util.utilized = 3 * FRAC /\ cell.util.blocked = 2 * FRAC

\* C12: with memory-per-CPU 0 the CPU figure of every node has blocked = 0.
C12_NoBlockingWhenDisabled ==
    (cell.kind = "node" /\ cell.column = "CPUs" /\ def_mem_per_cpu = 0) =>
        cell.util.blocked = 0

\* what C13 says of blocked and unavailable memory; `floor` is whether the
\* unavailable memory is kept from going below zero
C13_BlockedUnavailable(node, floor) ==
    LET cs == node.cpu_state
    IN  IF cs.allocated + cs.other < cs.total THEN <<node.mem_alloc * FRAC, 0>>
        ELSE IF cs.total - cs.other > 0 THEN <<node.mem * FRAC, 0>>
        ELSE IF floor /\ node.mem_alloc > node.mem THEN <<0, 0>>
        ELSE <<0, (node.mem - node.mem_alloc) * FRAC>>

\* what C13 says of the memory figure
C13_Figure(node, floor) ==
    LET used == IF node.mem_free = None THEN 0
                ELSE IF node.mem - node.mem_free[1] < 0 THEN 0
                ELSE node.mem - node.mem_free[1]
    IN  Utilization((IF used <= node.mem_alloc THEN used ELSE node.mem_alloc) * FRAC,
                    node.mem_alloc * FRAC,
                    C13_BlockedUnavailable(node, floor)[1],
                    C13_BlockedUnavailable(node, floor)[2],
                    node.mem * FRAC)

C14_GpuFigure ==
    (cell.kind = "node" /\ cell.column = "GPUs") =>
        LET cpu == cpu_utilization(RowNode, def_mem_per_cpu)
            headroom == cpu.capacity - cpu.allocated - cpu.blocked - cpu.unavailable
        IN  /\ ~cell.panic
            /\ cell.util =
                  Utilization(0, RowNode.gpus_used * FRAC,
                              IF headroom < FRAC
                              THEN (RowNode.gpus - RowNode.gpus_used) * FRAC ELSE 0,
                              0, RowNode.gpus * FRAC)

-----------------------------------------------------------------------------
(* Claims about the fields of a job record                                  *)

\* the entries of a TRES_PER_NODE text whose type is gpu, as the claim reads them
GpuEntries(text) ==
    {i \in DOMAIN split(text, ",") :
        split(split(text, ",")[i], ":")[1] \in {<<"g", "p", "u">>, gres_gpu}}

\* C15: TRES_PER_NODE "gres/gpu:a100:2" gives gpus = 2: the GPU count is the
\* final colon-separated field of the entry whose type is gpu; an empty field
\* or a field without a gpu entry gives gpus = 0 without an error.
C15_GpusFromTres ==
    (field.name = "TRES_PER_NODE" /\ field.done) =>
        /\ field.text = gres_gpu \o <<":", "a", "1", "0", "0", ":", "2">>
              => (field.out.kind = "ok" /\ field.out.gpus = 2)
        /\ GpuEntries(field.text) = {} => (field.out.kind = "ok" /\ field.out.gpus = 0)
        /\ \A i \in GpuEntries(field.text) :
              LET fields == split(split(field.text, ",")[i], ":")
              IN  (Cardinality(GpuEntries(field.text)) = 1
                   /\ parse_usize(fields[Len(fields)]) # None)
                  => /\ field.out.kind = "ok"
                     /\ field.out.gpus = parse_usize(fields[Len(fields)])[1]

\* the value of the mem entry of a TRES_ALLOC text of the model
HasMem(text) ==
    starts_with(text, mem_eq) \/ starts_with(text, cpu_eq_4 \o <<",">> \o mem_eq)
MemValue(text) ==
    IF starts_with(text, mem_eq) THEN SubSeq(text, Len(mem_eq) + 1, Len(text))
    ELSE SubSeq(text, Len(cpu_eq_4) + Len(mem_eq) + 2, Len(text))
\* the whole number a text of digits stands for, None for any other text
Whole(text) ==
    IF text # <<>> /\ \A i \in DOMAIN text : is_digit(text[i])
    THEN Some(digits_value(text)) ELSE None

\* C16: the memory of an allocated-resource text is converted to MB exactly
\* for whole units ("2G" 2048, "1T" 1048576, "512M" 512, "1024K" 1), an
\* unrecognized unit suffix is an error, and an empty text gives cpus = 0 and
\* mem = 0 without an error.
C16_MemoryInMB ==
    (field.name = "TRES_ALLOC" /\ field.done) =>
        /\ field.text = <<>> =>
              (field.out.kind = "ok" /\ field.out.cpus = 0 /\ field.out.mem = 0)
        /\ HasMem(field.text) =>
              LET v == MemValue(field.text)
                  n == Whole(SubSeq(v, 1, Len(v) - 1))
                  mb(k) == field.out.kind = "ok" /\ field.out.mem = k
              IN  /\ v = <<"2", "G">> => mb(2048)
                  /\ v = <<"1", "T">> => mb(1048576)
                  /\ v = <<"5", "1", "2", "M">> => mb(512)
                  /\ v = <<"1", "0", "2", "4", "K">> => mb(1)
                  /\ (v # <<>> /\ n # None /\ v[Len(v)] = "M") => mb(n[1])
                  /\ (v # <<>> /\ n # None /\ v[Len(v)] = "G") => mb(n[1] * 1024)
                  /\ (v # <<>> /\ n # None /\ v[Len(v)] = "T") => mb(n[1] * 1048576)
                  /\ (v # <<>> /\ v[Len(v)] \notin {"K", "M", "G", "T"})
                        => field.out.kind = "err"

\* the components of a TIME text: the days before the first `-`, if there is
\* one, and the colon-separated parts after it
Components(text) ==
    IF contains(text, "-")
    THEN <<splitn(text, 2, "-")[1]>> \o split(splitn(text, 2, "-")[2], ":")
    ELSE split(text, ":")

\* C17: "1-02:03:04" parses to days 1, hours 2, minutes 3, seconds 4;
\* [D-]MM:SS parses with hours = 0; "INVALID" parses to Time::Invalid and no
\* other text does; a text with a non-numeric component is rejected; parsing
\* the Display text of a parsed Time gives the same Time.
C17_TimeParses ==
    (field.name = "TIME" /\ field.done) =>
        LET parts == Components(field.text)
            ok(t) == field.out.kind = "ok" /\ field.out.value = t
        IN  /\ field.text = <<"1", "-", "0", "2", ":", "0", "3", ":", "0", "4">>
                  => ok(Duration(1, 2, 3, 4))
            /\ field.text = INVALID => ok(Invalid)
            /\ (field.out.kind = "ok" /\ field.text # INVALID)
                  => field.out.value.kind = "Duration"
            /\ (/\ field.text # INVALID
                /\ \A i \in DOMAIN parts : Whole(parts[i]) # None
                /\ ~contains(field.text, "-") /\ Len(parts) = 2)
               => ok(Duration(0, 0, Whole(parts[1])[1], Whole(parts[2])[1]))
            /\ (/\ \A i \in DOMAIN parts : Whole(parts[i]) # None
                /\ contains(field.text, "-") /\ Len(parts) = 3)
               => ok(Duration(Whole(parts[1])[1], 0, Whole(parts[2])[1],
                              Whole(parts[3])[1]))
            /\ (field.text # INVALID /\ \E i \in DOMAIN parts : Whole(parts[i]) = None)
                  => field.out.kind = "err"
            /\ field.out.kind = "ok"
                  => Time_from_str(Time_fmt(field.out.value)) = Ok(field.out.value)

\* elapsed seconds of a Time, Time::Invalid below every duration
Elapsed(t) ==
    IF t.kind = "Invalid" THEN -1
    ELSE ((t.days * 24 + t.hours) * 60 + t.minutes) * 60 + t.seconds

\* C18: the order the job table is sorted in by runtime is the order of the
\* elapsed time: Time::Invalid is below every duration and two parsed
\* durations compare as their total elapsed seconds do.
C18_RuntimeOrderIsElapsedOrder ==
    job_table.sorted =>
        /\ \A i, j \in DOMAIN job_table.jobs :
              LET a == job_table.jobs[i]
                  b == job_table.jobs[j]
              IN  /\ Time_cmp(a, b) = "Less" <=> Elapsed(a) < Elapsed(b)
                  /\ Time_cmp(a, b) = "Equal" <=> Elapsed(a) = Elapsed(b)
        /\ \A i, j \in DOMAIN job_table.jobs :
              i < j => IF job_table.sort_order = "Ascending"
                       THEN Elapsed(job_table.jobs[i]) <= Elapsed(job_table.jobs[j])
                       ELSE Elapsed(job_table.jobs[i]) >= Elapsed(job_table.jobs[j])

-----------------------------------------------------------------------------
(* Claims about degenerate bars and about records that do not decode        *)

\* the cell rendered last went through Utilization::to_line with capacity 0
\* or width 0
Degenerate ==
    /\ cell.kind = "node" /\ cell.terms # <<>>
    /\ (cell.util.capacity = 0 \/ cell.width = 0)

FirstFailure(lines) ==
    IF \A i \in DOMAIN lines : lines[i].decodes = "ok" THEN 0
    ELSE CHOOSE i \in DOMAIN lines :
            /\ lines[i].decodes # "ok"
            /\ \A j \in 1..(i - 1) : lines[j].decodes = "ok"

RECURSIVE NodeCount(_)
\* node records in a snapshot
NodeCount(partitions) ==
    IF partitions = <<>> THEN 0
    ELSE Len(partitions[1].nodes) + NodeCount(Tail(partitions))

\* C20: when the decoding of a job or node record returns an error, the parse
\* returns an error without any of the records decoded before it, and
\* Slurm::collect returns an error; a snapshot is only built from input all
\* of whose records decoded.
C20_NoPartialSnapshot ==
    collected.kind # "none" =>
        LET j == FirstFailure(squeue.lines)
            n == FirstFailure(sinfo.lines)
        IN  /\ (j # 0 /\ squeue.lines[j].decodes = "err")
                  => collected = [kind |-> "err", cluster |-> <<>>]
            /\ (j = 0 /\ n # 0 /\ sinfo.lines[n].decodes = "err")
                  => collected = [kind |-> "err", cluster |-> <<>>]
            /\ collected.kind = "ok"
                  => (j = 0 /\ n = 0 /\ NodeCount(collected.cluster) = Len(sinfo.lines))

\* C20's case: the second job record does not decode after a first one that
\* did, the node records all decode, and the collection returned an error.
C20_Witness ==
    /\ collected = [kind |-> "err", cluster |-> <<>>]
    /\ Len(squeue.lines) = 2
    /\ squeue.lines[1].decodes = "ok" /\ squeue.lines[2].decodes = "err"
    /\ sinfo.lines # <<>> /\ FirstFailure(sinfo.lines) = 0

-----------------------------------------------------------------------------
(* Claims about jobs that match nothing                                     *)

\* the node names and the partition labels of the node source
SourceNodes == {sinfo.lines[i].record.name : i \in DOMAIN sinfo.lines}
SourceLabels == {sinfo.lines[i].record.partition.label : i \in DOMAIN sinfo.lines}
\* a job none of whose nodes is in the node source, or a job without nodes
\* whose partition label is the label of no partition that has nodes
MatchesNothing(job) ==
    IF job.nodelist = <<>> THEN job.partition.label \notin SourceLabels
    ELSE Range(job.nodelist) \cap SourceNodes = {}

\* C23: a job that matches nothing is in no node's and no partition's job
\* list after the collection, and the collection returns Ok.
C23_UnmatchedJobsAreDropped ==
    (collected.kind # "none" /\ \E job \in JobRecords : MatchesNothing(job)) =>
        /\ collected.kind = "ok"
        /\ \A job \in JobRecords :
              MatchesNothing(job) =>
                  \A p \in DOMAIN collected.cluster :
                      /\ ~Contains(collected.cluster[p].jobs, job)
                      /\ \A n \in DOMAIN collected.cluster[p].nodes :
                            ~Contains(collected.cluster[p].nodes[n].jobs, job)

\* C23's case: a collection of a cluster with nodes, on a job source holding a
\* job on an absent node and a pending job of a partition without nodes.
C23_Witness ==
    /\ collected.kind = "ok"
    /\ collected.cluster # <<>>
    /\ \E job \in JobRecords : job.nodelist # <<>> /\ MatchesNothing(job)
    /\ \E job \in JobRecords : job.nodelist = <<>> /\ MatchesNothing(job)

-----------------------------------------------------------------------------
(* Claims about the partial glyphs of a bar                                  *)

\* the state of the loop of to_line after the first k segments of the bar of
\* the rendered cell
AfterSegments(k) ==
    segment_loop([spans |-> <<>>, chars |-> 0, last_end |-> 0, last_color |-> "Green"],
                 SubSeq(segments(cell.util), 1, k), 1, cell.util, cell.width)
\* the spans segment k appended, and the partial glyphs among them
SpansOf(k) ==
    SubSeq(AfterSegments(k).spans, Len(AfterSegments(k - 1).spans) + 1,
           Len(AfterSegments(k).spans))
PartialsOf(k) == SelectSeq(SpansOf(k), LAMBDA sp : sp.glyph # FULL_BLOCK)
\* segment k starts at a boundary inside a cell; the numerator (over the
\* capacity) of the position of the boundary within that cell
StartsInsideCell(k) ==
    /\ segments(cell.util)[k][1] * cell.width > AfterSegments(k - 1).last_end
    /\ AfterSegments(k - 1).last_end % cell.util.capacity > 0
Remainder(k) == AfterSegments(k - 1).last_end % cell.util.capacity
Abs(x) == IF x < 0 THEN -x ELSE x
Drawn == cell.kind # "none" /\ ~cell.panic /\ cell.width > 0 /\ cell.util.capacity > 0

\* C24: for a segment boundary at the fractional position r of a cell the bar
\* has at most one partial glyph, in the preceding segment's colour over the
\* following segment's colour, and its filled width is the step of the ramp
\* closest to r.
C24_PartialGlyphIsClosestStep ==
    Drawn =>
        \A k \in 1..5 :
            StartsInsideCell(k) =>
                /\ Len(PartialsOf(k)) <= 1
                /\ \A i \in DOMAIN PartialsOf(k) :
                      LET sp == PartialsOf(k)[i]
                      IN  /\ sp.n = 1
                          /\ sp.style = style(AfterSegments(k - 1).last_color,
                                              segments(cell.util)[k][2])
                          /\ 2 * Abs(BARS_width[sp.glyph + 1] * cell.util.capacity
                                       - 8 * Remainder(k))
                                <= cell.util.capacity

-----------------------------------------------------------------------------
(* Claims about blocked GPUs                                                 *)

\* the CPUs of a node neither allocated, blocked by allocated memory, nor
\* unavailable
FreeCpus(node, mem_per_cpu) ==
    LET cs == node.cpu_state
        by_memory == IF mem_per_cpu > 0 THEN Ceiling(node.mem_alloc, mem_per_cpu) ELSE 0
    IN  cs.total - cs.other - Max(cs.allocated, by_memory)

\* C30: the GPU figure of a node with at least one CPU that is neither
\* allocated, blocked by allocated memory, nor unavailable has blocked = 0.
C30_GpusBlockedOnlyWithoutCpus ==
    (cell.kind = "node" /\ cell.column = "GPUs" /\ ~cell.panic) =>
        (FreeCpus(RowNode, def_mem_per_cpu) >= 1 => cell.util.blocked = 0)

-----------------------------------------------------------------------------
(* isize and usize arithmetic; isize is as wide as usize                    *)

usize_MAX == 2 ^ UsizeBits - 1
isize_MAX == 2 ^ (UsizeBits - 1) - 1
isize_MIN == -(2 ^ (UsizeBits - 1))

\* the value of a + b in isize arithmetic that wraps
isize_wrapping_add(a, b) == ((a + b - isize_MIN) % (2 ^ UsizeBits)) + isize_MIN
\* a + b does not fit isize
isize_add_overflows(a, b) == a + b > isize_MAX \/ a + b < isize_MIN
isize_saturating_add(a, b) ==
    IF a + b > isize_MAX THEN isize_MAX ELSE IF a + b < isize_MIN THEN isize_MIN ELSE a + b
saturating_add(a, b) == IF a + b > usize_MAX THEN usize_MAX ELSE a + b
\* Ord::clamp, for min <= max
clamp(x, min, max) == IF x < min THEN min ELSE IF x > max THEN max ELSE x

-----------------------------------------------------------------------------
(* widgets/misc.rs, widgets/nodes.rs, widgets/jobs.rs, ui.rs: the selections *)
(* of the node table and of the job table                                    *)

\* TableState::select as the widgets use it: selecting nothing resets the offset
TableState_select(state, index) ==
    [selected |-> index, offset |-> IF index = None THEN 0 ELSE state.offset]

\* misc::scroll: [panic, state, selection]. `selected as isize + delta` is an
\* isize addition: with overflow checks it panics on overflow, without them it
\* wraps
scroll(state, items, delta) ==
    IF items = 0
    THEN [panic |-> FALSE, state |-> TableState_select(state, None), selection |-> None]
    ELSE LET current == unwrap_or(state.selected, 0)
         IN  IF overflow_checks /\ isize_add_overflows(current, delta)
             THEN [panic |-> TRUE, state |-> state, selection |-> None]
             ELSE LET selection ==
                          Some(clamp(isize_wrapping_add(current, delta), 0, items - 1))
                  IN  [panic |-> FALSE, state |-> TableState_select(state, selection),
                       selection |-> selection]

\* NodeRow: Spacing, Partition(partition) or Node(node)
NodeRow(kind, item) == [kind |-> kind, item |-> item]
Spacing == NodeRow("Spacing", <<>>)
\* Selection: Partition(partition) or Node(node)
Selection(kind, item) == [kind |-> kind, item |-> item]
\* PartitionName::same
same(a, b) == a.label = b.label

RECURSIVE scroll_loop(_, _)
\* the loop of NodeTableState::scroll
scroll_loop(s, delta) ==
    LET r == scroll(s.table, Len(s.rows), delta)
        s1 == [s EXCEPT !.table = r.state]
    IN  IF r.panic THEN [panic |-> TRUE, st |-> s]
        ELSE IF r.selection = None THEN [panic |-> FALSE, st |-> s1]
        ELSE LET idx == r.selection[1]
             IN  IF \/ s.rows[idx + 1].kind # "Spacing"
                    \/ delta = 0
                    \/ (delta < 0 /\ idx = 0)
                    \/ (delta > 0 /\ idx + 1 >= Len(s.rows))
                 THEN [panic |-> FALSE, st |-> s1]
                 ELSE scroll_loop(s1, clamp(delta, -1, 1))

\* `self.rows[idx]` of NodeTableState::selected is out of range
NodeTableState_selected_panics(s) ==
    s.table.selected # None /\ s.table.selected[1] >= Len(s.rows)

\* NodeTableState::selected
NodeTableState_selected(s) ==
    IF s.table.selected = None THEN None
    ELSE LET row == s.rows[s.table.selected[1] + 1]
         IN  IF row.kind = "Spacing" THEN None ELSE Some(Selection(row.kind, row.item))

\* NodeTableState::scroll: [panic, st, selection]
NodeTableState_scroll(s, delta) ==
    LET r == scroll_loop(s, delta)
    IN  IF r.panic \/ NodeTableState_selected_panics(r.st)
        THEN [panic |-> TRUE, st |-> r.st, selection |-> None]
        ELSE [panic |-> FALSE, st |-> r.st, selection |-> NodeTableState_selected(r.st)]

\* NodeTableState::click selecting the row whatever it is
NodeTableState_click_any_row(s, row) ==
    LET offset == saturating_sub(saturating_add(s.table.offset, row), 1)
    IN  IF offset < Len(s.rows)
        THEN [s EXCEPT !.table = TableState_select(@, Some(offset))]
        ELSE s

\* NodeTableState::click
NodeTableState_click(s, row) ==
    LET offset == saturating_sub(saturating_add(s.table.offset, row), 1)
    IN  IF offset < Len(s.rows) /\ s.rows[offset + 1].kind # "Spacing"
        THEN [s EXCEPT !.table = TableState_select(@, Some(offset))]
        ELSE s

RECURSIVE update_table_rows(_, _)
\* the loop of NodeTableState::update_table
update_table_rows(partitions, hide_unavailable) ==
    IF partitions = <<>> THEN <<>>
    ELSE LET partition == partitions[1]
             shown(node) == ~hide_unavailable \/ is_available(node.state)
             visible == SelectSeq(partition.nodes, shown)
         IN  <<NodeRow("Partition", partition)>>
               \o [i \in DOMAIN visible |-> NodeRow("Node", visible[i])]
               \o <<Spacing>>
               \o update_table_rows(Tail(partitions), hide_unavailable)

\* NodeTableState::update_table; the trailing spacing is removed
update_table(s) ==
    LET rows == update_table_rows(s.cluster, s.hide_unavailable)
    IN  [s EXCEPT !.rows = IF rows = <<>> THEN <<>> ELSE SubSeq(rows, 1, Len(rows) - 1)]

\* NodeTableState::select
NodeTableState_select(s, selection) ==
    IF selection = None THEN [s EXCEPT !.table = TableState_select(@, None)]
    ELSE LET sel == selection[1]
             matches(row) ==
                 \/ sel.kind = "Node" /\ row.kind = "Node" /\ sel.item.name = row.item.name
                 \/ /\ sel.kind = "Partition" /\ row.kind = "Partition"
                    /\ same(sel.item.name, row.item.name)
             partition == IF sel.kind = "Node" THEN sel.item.partition ELSE sel.item.name
             falls_back(row) == row.kind = "Partition" /\ same(row.item.name, partition)
             first(P(_)) == CHOOSE i \in DOMAIN s.rows :
                               P(s.rows[i]) /\ \A j \in 1..(i - 1) : ~P(s.rows[j])
         IN  IF \E i \in DOMAIN s.rows : matches(s.rows[i])
             THEN [s EXCEPT !.table = TableState_select(@, Some(first(matches) - 1))]
             ELSE IF \E i \in DOMAIN s.rows : falls_back(s.rows[i])
             THEN [s EXCEPT !.table = TableState_select(@, Some(first(falls_back) - 1))]
             ELSE [s EXCEPT !.table = TableState_select(@, None)]

\* NodeTableState::toggle_unavailable: [panic, st]
NodeTableState_toggle_unavailable(s) ==
    IF NodeTableState_selected_panics(s) THEN [panic |-> TRUE, st |-> s]
    ELSE [panic |-> FALSE,
          st |-> NodeTableState_select(
                    update_table([s EXCEPT !.hide_unavailable = ~@]),
                    NodeTableState_selected(s))]

RECURSIVE cluster_gpus(_)
\* the loop of NodeTableState::update that adds up the GPUs
cluster_gpus(partitions) ==
    IF partitions = <<>> THEN 0
    ELSE count_gpus(partitions[1].nodes) + cluster_gpus(Tail(partitions))

\* NodeTableState::update: [panic, st]
NodeTableState_update(s, partitions) ==
    IF NodeTableState_selected_panics(s) THEN [panic |-> TRUE, st |-> s]
    ELSE [panic |-> FALSE,
          st |-> [NodeTableState_select(update_table([s EXCEPT !.cluster = partitions]),
                                        NodeTableState_selected(s))
                     EXCEPT !.gpus = cluster_gpus(partitions)]]

\* NodeTableState::height
NodeTableState_height(s) == Len(s.rows) + 1

\* the columns of the job table
JobColumns == <<"JobID", "JobArray", "User", "State", "Runtime", "Nodes", "Tasks",
                "CPUs", "GPUs", "Memory", "Nodelist", "Name">>

\* str::cmp on the names that occur in the model
str_cmp(a, b) ==
    LET names == NodeNames \o <<"user">>
        rank(x) == CHOOSE i \in DOMAIN names : names[i] = x
    IN  IF a = b THEN "Equal" ELSE IF rank(a) < rank(b) THEN "Less" ELSE "Greater"

RECURSIVE nodelist_cmp(_, _)
\* Vec<String>::cmp
nodelist_cmp(a, b) ==
    IF a = <<>> /\ b = <<>> THEN "Equal"
    ELSE IF a = <<>> THEN "Less"
    ELSE IF b = <<>> THEN "Greater"
    ELSE IF str_cmp(a[1], b[1]) # "Equal" THEN str_cmp(a[1], b[1])
    ELSE nodelist_cmp(Tail(a), Tail(b))

\* the comparators of JobTableState::sort; the job records of the model carry
\* an id, a user and a node list and agree in every other column
job_cmp(column, a, b) ==
    CASE column = "JobID" ->
            IF a.id = b.id THEN "Equal" ELSE IF a.id < b.id THEN "Less" ELSE "Greater"
      [] column = "User" -> str_cmp(a.user, b.user)
      [] column = "Nodelist" -> nodelist_cmp(a.nodelist, b.nodelist)
      [] OTHER -> "Equal"

\* Ordering::reverse
reverse(ordering) ==
    CASE ordering = "Less" -> "Greater"
      [] ordering = "Greater" -> "Less"
      [] OTHER -> "Equal"

RECURSIVE job_sort_by(_, _, _)
\* slice::sort_by (a stable sort) with the comparator of `column` and `order`
job_sort_by(jobs, column, order) ==
    IF jobs = <<>> THEN <<>>
    ELSE LET x == jobs[Len(jobs)]
             front == job_sort_by(SubSeq(jobs, 1, Len(jobs) - 1), column, order)
             cmp(a, b) == IF order = "Ascending" THEN job_cmp(column, a, b)
                          ELSE reverse(job_cmp(column, a, b))
             keep(p) == cmp(p, x) # "Greater"
             after(p) == cmp(p, x) = "Greater"
         IN  SelectSeq(front, keep) \o <<x>> \o SelectSeq(front, after)

\* JobTableState::sort
JobTableState_sort(s) ==
    [s EXCEPT !.jobs = job_sort_by(@, JobColumns[s.sort_column + 1], s.sort_order)]

\* JobTableState::select
JobTableState_select(s, job) ==
    LET selected ==
            IF s.jobs = <<>> THEN None
            ELSE IF job # None /\ \E i \in DOMAIN s.jobs : s.jobs[i].id = job[1].id
            THEN Some((CHOOSE i \in DOMAIN s.jobs :
                          /\ s.jobs[i].id = job[1].id
                          /\ \A j \in 1..(i - 1) : s.jobs[j].id # job[1].id) - 1)
            ELSE Some(0)
    IN  [s EXCEPT !.table = TableState_select(@, selected)]

\* `self.jobs[i]` of JobTableState::update is out of range
JobTableState_update_panics(s) ==
    s.table.selected # None /\ s.table.selected[1] >= Len(s.jobs)

\* JobTableState::update: [panic, st]
JobTableState_update(s, jobs) ==
    IF JobTableState_update_panics(s) THEN [panic |-> TRUE, st |-> s]
    ELSE LET selected == IF s.table.selected = None THEN None
                         ELSE Some(s.jobs[s.table.selected[1] + 1])
         IN  [panic |-> FALSE,
              st |-> JobTableState_select(JobTableState_sort([s EXCEPT !.jobs = jobs]),
                                          selected)]

\* JobTableState::set_sort_column
JobTableState_set_sort_column(s, delta) ==
    LET d == isize_saturating_add(delta, s.sort_column)
        column == IF d < 0 THEN Len(JobColumns) - 1
                  ELSE IF d >= Len(JobColumns) THEN 0
                  ELSE d
    IN  JobTableState_sort(JobTableState_select([s EXCEPT !.sort_column = column], None))

\* SortOrder::toggle
SortOrder_toggle(order) == IF order = "Ascending" THEN "Descending" ELSE "Ascending"

\* JobTableState::toggle_sort_order
JobTableState_toggle_sort_order(s) ==
    JobTableState_sort(
        JobTableState_select([s EXCEPT !.sort_order = SortOrder_toggle(@)], None))

\* JobTableState::scroll: [panic, st]
JobTableState_scroll(s, delta) ==
    LET r == scroll(s.table, Len(s.jobs), delta)
    IN  [panic |-> r.panic, st |-> [s EXCEPT !.table = r.state]]

\* JobTableState::click
JobTableState_click(s, row) ==
    LET offset == saturating_add(s.table.offset, row)
    IN  [s EXCEPT !.table = TableState_select(@, Some(saturating_sub(offset, 1)))]

\* Rect::is_empty, for a terminal of positive width
Rect_is_empty(rect) == rect.height = 0

\* UI::focus_at
focus_at(u, row) ==
    IF row >= u.node_layout.height /\ ~Rect_is_empty(u.node_layout) THEN Some("Jobs")
    ELSE IF row < saturating_sub(u.node_layout.height, 1) THEN Some("Nodes")
    ELSE None

\* UI::scroll_node_selection with the job table left as it is
scroll_node_selection_keep_jobs(u, delta) ==
    LET r == NodeTableState_scroll(u.node_state, delta)
    IN  IF r.panic THEN [u EXCEPT !.panic = TRUE]
        ELSE [u EXCEPT !.node_state = r.st]

\* UI::scroll_node_selection
scroll_node_selection(u, delta) ==
    LET r == NodeTableState_scroll(u.node_state, delta)
    IN  IF r.panic THEN [u EXCEPT !.panic = TRUE]
        ELSE LET jobs == IF r.selection = None THEN <<>> ELSE r.selection[1].item.jobs
                 j == JobTableState_update(u.job_state, jobs)
             IN  IF j.panic THEN [u EXCEPT !.node_state = r.st, !.panic = TRUE]
                 ELSE [u EXCEPT !.node_state = r.st, !.job_state = j.st]

\* UI::scroll_job_selection
scroll_job_selection(u, delta) ==
    LET j == JobTableState_scroll(u.job_state, delta)
    IN  IF j.panic THEN [u EXCEPT !.panic = TRUE] ELSE [u EXCEPT !.job_state = j.st]

\* UI::update
UI_update(u, app_cluster) ==
    LET r == NodeTableState_update(u.node_state, app_cluster)
    IN  IF r.panic THEN [u EXCEPT !.panic = TRUE]
        ELSE scroll_node_selection([u EXCEPT !.node_state = r.st], 0)

\* UI::scroll
UI_scroll(u, delta) ==
    IF u.focus = "Nodes" THEN scroll_node_selection(u, delta)
    ELSE scroll_job_selection(u, delta)

\* UI::set_sort_column
UI_set_sort_column(u, delta) ==
    [u EXCEPT !.job_state = JobTableState_set_sort_column(@, delta)]

\* UI::toggle_sort_order
UI_toggle_sort_order(u) ==
    [u EXCEPT !.job_state = JobTableState_toggle_sort_order(@)]

\* UI::toggle_focus
UI_toggle_focus(u) ==
    LET focus == IF u.focus = "Jobs" THEN "Nodes" ELSE "Jobs"
    IN  [u EXCEPT !.focus = focus,
                  !.node_state.focus = (focus = "Nodes"),
                  !.job_state.focus = (focus = "Jobs")]

\* UI::mouse_click
UI_mouse_click(u, row) ==
    IF focus_at(u, row) = None THEN u
    ELSE LET focus == focus_at(u, row)[1]
             u1 == IF u.focus # focus THEN UI_toggle_focus(u) ELSE u
             r == saturating_sub(row, 1)
         IN  IF focus = "Nodes"
             THEN scroll_node_selection(
                     [u1 EXCEPT !.node_state = NodeTableState_click(@, r)], 0)
             ELSE [u1 EXCEPT !.job_state =
                      JobTableState_click(@, saturating_sub(r, u.node_layout.height))]

\* UI::mouse_wheel
UI_mouse_wheel(u, row, delta) ==
    CASE focus_at(u, row) = Some("Jobs") -> scroll_job_selection(u, delta)
      [] focus_at(u, row) = Some("Nodes") -> scroll_node_selection(u, delta)
      [] OTHER -> u

\* UI::toggle_unavailable
UI_toggle_unavailable(u) ==
    LET r == NodeTableState_toggle_unavailable(u.node_state)
    IN  IF r.panic THEN [u EXCEPT !.panic = TRUE]
        ELSE scroll_node_selection([u EXCEPT !.node_state = r.st], 0)

\* UI::new
UI_new(app_cluster) == UI_update(UI_toggle_focus(UI_default), app_cluster)

-----------------------------------------------------------------------------
(* The user interface driven through its public functions                   *)

\* heights of the terminal: one too low for both tables, one that shows both
SmallTerminal == 6
LargeTerminal == 10
TerminalHeights == {SmallTerminal, LargeTerminal}
\* the rows a mouse event can name
MouseRows == 0..(LargeTerminal - 1)
\* the deltas of the scrolling keys (Home, PageUp, Up, Down, PageDown, End) and
\* the delta scroll_node_selection is called with after a click or a refresh
Deltas == {isize_MIN, -10, -1, 0, 1, 10, isize_MAX}
\* deltas set_sort_column is called with: they take the sort column from
\* Runtime to JobID, Nodes, Nodelist and Name, through each branch of the function
SortDeltas == {isize_MIN, 6, isize_MAX}

\* what Table::render may do to the TableState of a table of `nrows` rows
\* drawn in an area of `height` rows, one of them the header: the viewport is
\* moved as little as needed to show the selected row, and a selection past
\* the last row is either left alone or brought into range (the library's
\* releases differ)
Table_render(state, nrows, height) ==
    LET clamped == IF nrows = 0 THEN None
                   ELSE IF state.selected # None /\ state.selected[1] >= nrows
                   THEN Some(nrows - 1)
                   ELSE state.selected
        visible == saturating_sub(height, 1)
        start == Min(state.offset, Max(nrows, 1) - 1)
        shown(sel) ==
            IF sel = None \/ nrows = 0 \/ visible = 0 THEN start
            ELSE LET row == Min(sel[1], nrows - 1)
                 IN  IF row >= start + visible THEN row - visible + 1
                     ELSE IF row < start THEN row
                     ELSE start
    IN  IF height = 0 THEN {state}
        ELSE {[selected |-> sel, offset |-> shown(sel)] :
                 sel \in {state.selected, clamped}}

\* the height of the area UI::render gives the node table in a terminal of
\* `height` rows: Constraint::Max((node_state.height() + 2).max(5)) above
\* Constraint::Min(4)
node_area(u, height) ==
    IF height >= 2 * (2 + 1) + 3
    THEN Min(Max(NodeTableState_height(u.node_state) + 2, 5), height - 4)
    ELSE height

\* UI::render: the set of states it may leave. The node table is drawn inside
\* a block with a top border, the job table inside a block with all borders
UI_render(u, height) ==
    {[u EXCEPT !.node_layout = [height |-> node_area(u, height)],
               !.terminal = height,
               !.node_state.table = nt,
               !.job_state.table = jt] :
        nt \in Table_render(u.node_state.table, Len(u.node_state.rows),
                            saturating_sub(node_area(u, height), 1)),
        jt \in IF height >= 2 * (2 + 1) + 3
               THEN Table_render(u.job_state.table, Len(u.job_state.jobs),
                                 saturating_sub(height - node_area(u, height), 2))
               ELSE {u.job_state.table}}

\* the rest of the state is left alone by a call on the UI
ui_frame == UNCHANGED <<field, job_table, util_vars, collect_vars, app_vars>>

call_update(app_cluster) ==
    /\ ~ui.panic
    /\ ui' = UI_update(ui, app_cluster)
    /\ ui_frame

call_scroll(delta) ==
    /\ ~ui.panic
    /\ ui' = UI_scroll(ui, delta)
    /\ ui_frame

call_set_sort_column(delta) ==
    /\ ~ui.panic
    /\ ui' = UI_set_sort_column(ui, delta)
    /\ ui_frame

call_toggle_sort_order ==
    /\ ~ui.panic
    /\ ui' = UI_toggle_sort_order(ui)
    /\ ui_frame

\* a mouse event names a row of the terminal
call_mouse_click(row) ==
    /\ ~ui.panic
    /\ row < ui.terminal
    /\ ui' = UI_mouse_click(ui, row)
    /\ ui_frame

call_mouse_wheel(row, delta) ==
    /\ ~ui.panic
    /\ row < ui.terminal
    /\ ui' = UI_mouse_wheel(ui, row, delta)
    /\ ui_frame

call_toggle_focus ==
    /\ ~ui.panic
    /\ ui' = UI_toggle_focus(ui)
    /\ ui_frame

call_toggle_unavailable ==
    /\ ~ui.panic
    /\ ui' = UI_toggle_unavailable(ui)
    /\ ui_frame

call_render(height) ==
    /\ ~ui.panic
    /\ ui' \in UI_render(ui, height)
    /\ ui_frame

\* a node line of the node source in a given state
StateNode(name, label, state) == [BareNode(name, label) EXCEPT !.state = state]

\* node sources: no node; n1 in partitions a and b and n2, which is down, in
\* a; n2 alone in b
UISinfo ==
    {Output("ok", <<>>),
     Output("ok", <<Line(BareNode("n1", "a"), "ok"),
                    Line(StateNode("n2", "a", NodeState("Down", TRUE)), "ok"),
                    Line(BareNode("n1", "b"), "ok")>>),
     Output("ok", <<Line(StateNode("n2", "b", NodeState("Down", TRUE)), "ok")>>)}
\* the job source: a job on n1, a pending job of partition b, a job on n1 and n2
UISqueue ==
    {Output("ok", <<Line(Job(1, <<"n1">>, PartitionName("a", FALSE), "user"), "ok"),
                    Line(Job(2, <<>>, PartitionName("b", FALSE), "user"), "ok"),
                    Line(Job(3, <<"n1", "n2">>, PartitionName("a", FALSE), "user"),
                         "ok")>>)}
\* the snapshots Slurm::collect builds from them
UIClusters ==
    UNION {{r.value : r \in {x \in Slurm_collect(si, sq) : x.kind = "ok"}} :
              si \in UISinfo, sq \in UISqueue}

\* UI::new on a first snapshot
InitUI ==
    /\ overflow_checks \in BOOLEAN
    /\ nodes = <<>>
    /\ def_mem_per_cpu = 0
    /\ cell = NoCell
    /\ \E c \in UIClusters : ui = UI_new(c)
    /\ field = [name |-> "none", text |-> <<>>, done |-> FALSE, out |-> <<>>]
    /\ job_table = [jobs |-> <<>>, sort_order |-> "Ascending", sorted |-> FALSE]
    /\ IdleCollect /\ IdleApp

NextUI ==
    \/ \E c \in UIClusters : call_update(c)
    \/ \E delta \in Deltas : call_scroll(delta)
    \/ \E delta \in SortDeltas : call_set_sort_column(delta)
    \/ call_toggle_sort_order
    \/ \E row \in MouseRows : call_mouse_click(row)
    \/ \E row \in MouseRows, delta \in {-1, 1} : call_mouse_wheel(row, delta)
    \/ call_toggle_focus
    \/ call_toggle_unavailable
    \/ \E height \in TerminalHeights : call_render(height)

SpecUI == InitUI /\ [][NextUI]_vars

-----------------------------------------------------------------------------
(* Claims about the selections                                               *)

\* C25: the selected index of the job table is None or smaller than the number
\* of jobs, whatever job-table operations were called.
C25_JobSelectionInRange ==
    LET table == ui.job_state.table
    IN  table.selected # None => table.selected[1] < Len(ui.job_state.jobs)

NodeRows == ui.node_state.rows
NodeSelected == ui.node_state.table.selected
\* the row a scroll by `delta` aims at, in unbounded arithmetic
Target(delta) == clamp(unwrap_or(NodeSelected, 0) + delta, 0, Len(NodeRows) - 1)
Sign(delta) == IF delta < 0 THEN -1 ELSE 1

\* C26: the selected row of the node table is None or the index of a row that
\* is not a spacer; a scroll by a non-zero delta that lands on a spacer ends
\* on the row next to the spacer in the direction of the scroll, which is a
\* partition or a node.
C26_SelectionIsNeverASpacer ==
    /\ NodeSelected # None =>
          /\ NodeSelected[1] < Len(NodeRows)
          /\ NodeRows[NodeSelected[1] + 1].kind # "Spacing"
    /\ \A delta \in Deltas \ {0} :
          LET r == NodeTableState_scroll(ui.node_state, delta)
          IN  (/\ NodeRows # <<>>
               /\ ~r.panic
               /\ NodeRows[Target(delta) + 1].kind = "Spacing") =>
                  /\ r.st.table.selected = Some(Target(delta) + Sign(delta))
                  /\ r.st.rows[Target(delta) + Sign(delta) + 1].kind # "Spacing"

\* C26's case: the row below a spacer is selected, reached by an operation on
\* the UI, and a scroll by one row upwards ends above the spacer.
C26_Witness ==
    /\ ~ui.panic
    /\ NodeSelected # None
    /\ NodeSelected[1] >= 2
    /\ NodeRows[NodeSelected[1]].kind = "Spacing"
    /\ NodeTableState_scroll(ui.node_state, -1).st.table.selected
          = Some(NodeSelected[1] - 2)

\* a row showing the entity of a selection: a node of the same name, or the
\* partition of the same label
IsRowFor(sel, row) ==
    /\ row.kind = sel.kind
    /\ IF sel.kind = "Node" THEN row.item.name = sel.item.name
       ELSE same(row.item.name, sel.item.name)
\* a row showing the partition of the entity of a selection
IsPartitionRowFor(sel, row) ==
    /\ row.kind = "Partition"
    /\ same(row.item.name,
            IF sel.kind = "Node" THEN sel.item.partition ELSE sel.item.name)
\* what C27 says of the state `after` that NodeTableState::update or
\* toggle_unavailable leaves when called in the state `before`
KeepsSelection(before, after) ==
    LET selection == NodeTableState_selected(before)
        index == after.table.selected
    IN  IF selection = None THEN index = None
        ELSE IF \E i \in DOMAIN after.rows : IsRowFor(selection[1], after.rows[i])
        THEN /\ index # None
             /\ IsRowFor(selection[1], after.rows[index[1] + 1])
             /\ after.rows = before.rows => index = before.table.selected
        ELSE IF \E i \in DOMAIN after.rows : IsPartitionRowFor(selection[1], after.rows[i])
        THEN /\ index # None
             /\ IsPartitionRowFor(selection[1], after.rows[index[1] + 1])
        ELSE index = None

\* C27: NodeTableState::update and toggle_unavailable keep the selected entity
\* selected if it still has a row (the row index is unchanged if the rows are),
\* fall back to the row of its partition otherwise, and select nothing if that
\* is gone too.
C27_SelectionFollowsTheEntity ==
    ~ui.panic =>
        /\ \A c \in UIClusters :
              KeepsSelection(ui.node_state, NodeTableState_update(ui.node_state, c).st)
        /\ KeepsSelection(ui.node_state,
                          NodeTableState_toggle_unavailable(ui.node_state).st)

\* C28: misc::scroll, on either table and for every delta, does not overflow
\* and selects the current index plus delta clamped to [0, items - 1].
C28_ScrollClamps ==
    ~ui.panic =>
        \A delta \in Deltas :
            \A t \in {<<ui.node_state.table, Len(ui.node_state.rows)>>,
                      <<ui.job_state.table, Len(ui.job_state.jobs)>>} :
                LET r == scroll(t[1], t[2], delta)
                IN  t[2] > 0 =>
                        /\ ~r.panic
                        /\ r.selection =
                              Some(clamp(unwrap_or(t[1].selected, 0) + delta, 0, t[2] - 1))

\* the two lists hold the same jobs, each as many times
SameJobs(a, b) ==
    /\ Len(a) = Len(b)
    /\ \A job \in Range(a) \cup Range(b) : Occurrences(a, job) = Occurrences(b, job)

\* C29: the job table holds the jobs of the node or partition selected in the
\* node table, and no jobs when nothing is selected.
C29_JobTableFollowsSelection ==
    ~ui.panic =>
        LET selection == NodeTableState_selected(ui.node_state)
        IN  IF selection = None THEN ui.job_state.jobs = <<>>
            ELSE SameJobs(ui.job_state.jobs, selection[1].item.jobs)

\* C29's case: a node is selected whose jobs are not all the jobs of its
\* partition, and the job table shows them.
C29_Witness ==
    /\ ~ui.panic
    /\ NodeSelected # None
    /\ NodeRows[NodeSelected[1] + 1].kind = "Node"
    /\ ui.job_state.jobs # <<>>
    /\ \E i \in DOMAIN ui.node_state.cluster :
          /\ same(ui.node_state.cluster[i].name,
                  NodeRows[NodeSelected[1] + 1].item.partition)
          /\ ~SameJobs(ui.node_state.cluster[i].jobs, ui.job_state.jobs)

-----------------------------------------------------------------------------
(* main.rs, handler.rs: the main loop                                        *)

\* `while app.running` is still looping: App::quit was not called, no call
\* returned an Err (every fallible call of the loop is followed by `?`, which
\* returns from main) and nothing panicked
main_looping == running /\ last_call.kind \notin {"failed", "panic"} /\ ~ui.panic

\* tui.draw(&mut ui) in the terminal as it is
draw(u) == IF u.panic THEN {u} ELSE UI_render(u, u.terminal)

\* what the loop does with the UI after a call of App::tick or App::update:
\* on Ok(true) the UI is updated and drawn
after_collection(u) ==
    IF last_call'.kind = "updated" THEN draw(UI_update(u, cluster'))
    ELSE {u}

main_frame == UNCHANGED <<field, job_table, util_vars, collect_vars>>

\* Event::Tick
main_tick ==
    /\ main_looping
    /\ App_tick
    /\ ui' \in after_collection(ui)
    /\ main_frame

\* Event::Key, `r`
main_key_refresh ==
    /\ main_looping
    /\ App_update(1)
    /\ ui' \in after_collection(ui)
    /\ main_frame

\* Event::Key, `q`, Esc or Ctrl-C
main_key_quit ==
    /\ main_looping
    /\ App_quit
    /\ ui' \in draw(ui)
    /\ main_frame

\* Event::Key, `h`
main_key_toggle_unavailable ==
    /\ main_looping
    /\ ui' \in draw(UI_toggle_unavailable(ui))
    /\ UNCHANGED app_vars
    /\ main_frame

\* Event::Key, Up or Down
main_key_scroll(delta) ==
    /\ main_looping
    /\ ui' \in draw(UI_scroll(ui, delta))
    /\ UNCHANGED app_vars
    /\ main_frame

\* Event::Key, Tab
main_key_toggle_focus ==
    /\ main_looping
    /\ ui' \in draw(UI_toggle_focus(ui))
    /\ UNCHANGED app_vars
    /\ main_frame

\* main up to the loop: App::new and UI::new succeeded and the UI was drawn
InitMain ==
    /\ sinfo \in AppSinfo
    /\ squeue \in AppSqueue
    /\ collected = [kind |-> "none", cluster |-> <<>>]
    /\ \E r \in Slurm_collect(sinfo, squeue) : r.kind = "ok" /\ cluster = r.value
    /\ running = TRUE
    /\ interval \in Intervals
    /\ now = 0
    /\ last_update = 0
    /\ cycle_start = -1
    /\ prev_start = -1
    /\ last_call = NoCall
    /\ flip = FALSE
    /\ IdleRender
    /\ field = [name |-> "none", text |-> <<>>, done |-> FALSE, out |-> <<>>]
    /\ job_table = [jobs |-> <<>>, sort_order |-> "Ascending", sorted |-> FALSE]
    /\ ui \in UI_render(UI_new(cluster), LargeTerminal)

\* the events of the loop that reach the App, and the keys Up, Down, Tab and
\* `h` of those that reach the UI only
main_events ==
    \/ main_tick
    \/ main_key_refresh
    \/ main_key_quit
    \/ main_key_toggle_unavailable
    \/ \E delta \in {-1, 1} : main_key_scroll(delta)
    \/ main_key_toggle_focus

NextMain ==
    \/ main_events
    \/ elapse
    \/ scheduler_changes

SpecMain == InitMain /\ [][NextMain]_vars

-----------------------------------------------------------------------------
(* Claims about the main loop                                                *)

\* C21: after a collection cycle started by a tick or by the refresh key has
\* failed, App.running is true, App.cluster was not assigned, and the main
\* loop goes on: it can process a further event.
C21_CollectionErrorIsNotFatal ==
    last_call.kind = "failed" =>
        /\ running
        /\ ~last_call.stored
        /\ main_looping
        /\ ENABLED main_events

\* C22: with the interval 0 a tick starts no collection cycle and returns
\* Ok(false), and App.cluster changes only in a step of the refresh key.
C22_NoAutomaticRefresh ==
    [][interval = 0 =>
          /\ main_tick => /\ last_call'.kind = "skipped"
                          /\ cycle_start' = cycle_start
                          /\ cluster' = cluster
          /\ cluster' # cluster => main_key_refresh]_vars

\* C22's case: with the interval 0 the loop has run for over a second, ticks
\* were handled, no cycle was ever started, and the scheduler would by now
\* report another snapshot.
C22_Witness ==
    /\ interval = 0
    /\ last_call.kind = "skipped"
    /\ cycle_start = -1
    /\ elapsed(last_update) >= from_secs(1)
    /\ \E r \in Slurm_collect(sinfo, squeue) : r.kind = "ok" /\ r.value # cluster

====
